---- MODULE Spec2Model ----
(***************************************************************************)
(* Character creation sessions of the Mineria bot (src/character.py):      *)
(* the per-user creation map, the pending flexible-bonus prompts and the   *)
(* persisted character collection, with one action per command handler.    *)
(* Text (command tokens, names) is modelled as sequences of characters so  *)
(* that str.lower, str.upper, str.isdigit and int() are computed.          *)
(***************************************************************************)
EXTENDS Integers, Sequences, FiniteSets, Bags, TLC

VARIABLES
    active_creations,   \* CharacterCog.active_creations: user id -> creation dict
    views,              \* BonusSelectView objects still dispatching interactions
    characters,         \* characters.json: user id -> list of character records
    last,               \* the handler that ran last and the message it sent
    phase,              \* history: per user, what happened since that user's last create
    adjusts,            \* history: add/remove commands that have succeeded
    running             \* the command tasks dispatched and not yet finished

vars == <<active_creations, views, characters, last, phase, adjusts, running>>

\* ------------------------------------------------------------------ bounds
LifeViews == 1     \* bonus prompts alive at once, in the session life cycle
MaxAdjust == 1     \* add/remove commands that succeed in one session life cycle
MaxChars == 2      \* characters saved per user

\* ------------------------------------------------------- program constants
BasePoints == 40           \* 40 - race points
DefaultRacePoints == 10    \* race_data.get("Race Points", 10)
MinDice == 3               \* any(v < 3 ...)
StatSides == 6             \* roll_dice(num, sides=6, keep=3, mod=0)
StatKeep == 3

Users == {"u1", "u2"}
Keys == <<"STR", "DEX", "CON", "INT", "WIS", "CHA">>
KeySet == {Keys[i] : i \in 1..Len(Keys)}

\* --------------------------------------------------------------------- text
\* A string is a sequence of characters; "sup2" stands for U+00B2, a character
\* for which str.isdigit() is True and int() raises ValueError.
DecimalChars == {"0", "1", "2", "3", "4", "5", "6", "7", "8", "9"}
DigitChars == DecimalChars \cup {"sup2"}

DigitVal(c) ==
    CASE c = "0" -> 0 [] c = "1" -> 1 [] c = "2" -> 2 [] c = "3" -> 3
      [] c = "4" -> 4 [] c = "5" -> 5 [] c = "6" -> 6 [] c = "7" -> 7
      [] c = "8" -> 8 [] c = "9" -> 9

LowerPairs ==
    { <<"A", "a">>, <<"B", "b">>, <<"C", "c">>, <<"D", "d">>, <<"E", "e">>,
      <<"F", "f">>, <<"G", "g">>, <<"H", "h">>, <<"I", "i">>, <<"J", "j">>,
      <<"K", "k">>, <<"L", "l">>, <<"M", "m">>, <<"N", "n">>, <<"O", "o">>,
      <<"P", "p">>, <<"Q", "q">>, <<"R", "r">>, <<"S", "s">>, <<"T", "t">>,
      <<"U", "u">>, <<"V", "v">>, <<"W", "w">>, <<"X", "x">>, <<"Y", "y">>,
      <<"Z", "z">> }

LowerTable == [c \in {p[1] : p \in LowerPairs} |-> (CHOOSE p \in LowerPairs : p[1] = c)[2]]
UpperTable == [c \in {p[2] : p \in LowerPairs} |-> (CHOOSE p \in LowerPairs : p[2] = c)[1]]
LowerChar(c) == IF c \in DOMAIN LowerTable THEN LowerTable[c] ELSE c
UpperChar(c) == IF c \in DOMAIN UpperTable THEN UpperTable[c] ELSE c

\* str.lower() / str.upper()
Lower(s) == [i \in 1..Len(s) |-> LowerChar(s[i])]
Upper(s) == [i \in 1..Len(s) |-> UpperChar(s[i])]

\* str.isdigit(): non-empty and every character a digit character
IsDigit(s) == Len(s) > 0 /\ \A i \in 1..Len(s) : s[i] \in DigitChars

\* int(s) is defined (no ValueError) on the strings the model uses
IntOk(s) == Len(s) > 0 /\ \A i \in 1..Len(s) : s[i] \in DecimalChars

RECURSIVE IntOf(_)
IntOf(s) == IF Len(s) = 0 THEN 0
            ELSE 10 * IntOf(SubSeq(s, 1, Len(s) - 1)) + DigitVal(s[Len(s)])

\* the spelling of each attribute key
KeyText(k) ==
    CASE k = "STR" -> <<"S", "T", "R">> [] k = "DEX" -> <<"D", "E", "X">>
      [] k = "CON" -> <<"C", "O", "N">> [] k = "INT" -> <<"I", "N", "T">>
      [] k = "WIS" -> <<"W", "I", "S">> [] k = "CHA" -> <<"C", "H", "A">>

IsKeyText(s) == \E k \in KeySet : KeyText(k) = s
KeyOfText(s) == CHOOSE k \in KeySet : KeyText(k) = s

NoArg == <<>>     \* an omitted argument (None) or an empty string: both falsy

\* ------------------------------------------------------------- dictionaries
EmptyDict == [k \in {} |-> 0]
\* d[k] = v, adding the key when it is absent
Put(d, k, v) == [x \in DOMAIN d \cup {k} |-> IF x = k THEN v ELSE d[x]]
\* d.get(k, default)
Get(d, k, default) == IF k \in DOMAIN d THEN d[k] ELSE default

RECURSIVE SumSeq(_)
SumSeq(s) == IF Len(s) = 0 THEN 0 ELSE Head(s) + SumSeq(Tail(s))

\* ------------------------------------------------------------ race catalog
\* races.json in iteration order. A race record may carry RacePoints ("Race
\* Points"), modifiers, flexible_stat, and the legacy texts AbilityPlus and
\* AbilityMinus ("Ability Score Plus" / "Ability Score Minus"), each optional.
\* A legacy text is a sequence of lexemes: a signed number [num |-> n] or a
\* word [word |-> characters].
Human == <<"H", "u", "m", "a", "n">>
Dwarf == <<"D", "w", "a", "r", "f">>
Elf == <<"E", "l", "f">>
Dexterity == <<"D", "e", "x", "t", "e", "r", "i", "t", "y">>
Constitution == <<"C", "o", "n", "s", "t", "i", "t", "u", "t", "i", "o", "n">>

RaceCatalog ==
    << [name |-> Human,
        data |-> [modifiers |-> EmptyDict, flexible_stat |-> 2]],
       [name |-> Dwarf,
        data |-> [RacePoints |-> 11,
                  modifiers |-> [k \in {"CON", "CHA", "LCK"} |->
                                   CASE k = "CON" -> 2 [] k = "CHA" -> -2 [] k = "LCK" -> 1],
                  flexible_stat |-> 0]],
       [name |-> Elf,
        data |-> [RacePoints |-> 6,
                  AbilityPlus |-> << [num |-> 2], [word |-> Dexterity] >>,
                  AbilityMinus |-> << [num |-> -2], [word |-> Constitution] >>]] >>

\* next((r for r in races if r.lower() == race_name.lower()), None):
\* the index of the first match, 0 when there is none
FindRace(race_name) ==
    LET hits == {i \in 1..Len(RaceCatalog) : Lower(RaceCatalog[i].name) = Lower(race_name)}
    IN IF hits = {} THEN 0 ELSE CHOOSE i \in hits : \A j \in hits : i <= j

\* ------------------------------------------------- parse_racial_modifiers
StatMap ==
    << [full |-> <<"S", "t", "r", "e", "n", "g", "t", "h">>, code |-> "STR"],
       [full |-> Dexterity, code |-> "DEX"],
       [full |-> Constitution, code |-> "CON"],
       [full |-> <<"I", "n", "t", "e", "l", "l", "i", "g", "e", "n", "c", "e">>, code |-> "INT"],
       [full |-> <<"W", "i", "s", "d", "o", "m">>, code |-> "WIS"],
       [full |-> <<"C", "h", "a", "r", "i", "s", "m", "a">>, code |-> "CHA"] >>

\* a in b, for strings
Contains(b, a) ==
    \E i \in 0..(Len(b) - Len(a)) : SubSeq(b, i + 1, i + Len(a)) = a

\* the first stat_map entry a matched name stands for, 0 when none does
StatMapHit(name) ==
    LET hits == {i \in 1..Len(StatMap) :
                    \/ Contains(Lower(name), Lower(StatMap[i].full))
                    \/ Lower(KeyText(StatMap[i].code)) = Lower(name)}
    IN IF hits = {} THEN 0 ELSE CHOOSE i \in hits : \A j \in hits : i <= j

OneAbilityPhrase == << <<"t", "o">>, <<"o", "n", "e">>,
                       <<"a", "b", "i", "l", "i", "t", "y">>, <<"s", "c", "o", "r", "e">> >>

HasOnePhrase(text) ==
    \E i \in 0..(Len(text) - 4) :
        \A j \in 1..4 : /\ "word" \in DOMAIN text[i + j]
                        /\ Lower(text[i + j].word) = OneAbilityPhrase[j]

\* re.findall(regex, text) folded into mods, lexeme by lexeme from position i
RECURSIVE LegacyFold(_, _, _)
LegacyFold(text, i, mods) ==
    IF i >= Len(text) THEN mods
    ELSE IF "num" \in DOMAIN text[i] /\ "word" \in DOMAIN text[i + 1]
         THEN LET h == StatMapHit(text[i + 1].word)
              IN LegacyFold(text, i + 2,
                     IF h = 0 THEN mods
                     ELSE [mods EXCEPT ![StatMap[h].code] = @ + text[i].num])
         ELSE LegacyFold(text, i + 1, mods)

LegacyField(race_data, field, mods) ==
    LET text == Get(race_data, field, <<>>)
    IN IF text = <<>> THEN mods
       ELSE LegacyFold(text, 1,
                IF HasOnePhrase(text) THEN Put(mods, "ANY", 2) ELSE mods)

\* parse_racial_modifiers that goes on to the legacy texts after the
\* structured data
ParseRacialModifiersMerged(race_data) ==
    LET zero == [k \in KeySet |-> 0]
        m == Get(race_data, "modifiers", EmptyDict)
        mods == [k \in KeySet |-> IF k \in DOMAIN m THEN m[k] ELSE 0]
        structured == IF Get(race_data, "flexible_stat", 0) > 0
                      THEN Put(mods, "ANY", race_data.flexible_stat)
                      ELSE mods
    IN LegacyField(race_data, "AbilityMinus",
           LegacyField(race_data, "AbilityPlus", structured))

ParseRacialModifiers(race_data) ==
    LET zero == [k \in KeySet |-> 0]
    IN IF "modifiers" \in DOMAIN race_data
       THEN LET m == race_data.modifiers
                mods == [k \in KeySet |-> IF k \in DOMAIN m THEN m[k] ELSE 0]
            IN IF Get(race_data, "flexible_stat", 0) > 0
               THEN Put(mods, "ANY", race_data.flexible_stat)
               ELSE mods
       ELSE LegacyField(race_data, "AbilityMinus",
                LegacyField(race_data, "AbilityPlus", zero))

\* ------------------------------------------------------------------- dice
\* random.randint(1, sides), the i-th draw of the stream a handler run uses.
\* The streams differ in which faces they show and in which order.
Draw(seed, i, sides) == ((seed + i * (2 * seed + 1)) % sides) + 1

\* sorted(rolls, reverse=True)
RECURSIVE InsertDesc(_, _)
InsertDesc(x, s) ==
    IF Len(s) = 0 THEN <<x>>
    ELSE IF x >= Head(s) THEN <<x>> \o s
    ELSE <<Head(s)>> \o InsertDesc(x, Tail(s))

RECURSIVE SortDesc(_)
SortDesc(s) == IF Len(s) = 0 THEN <<>> ELSE InsertDesc(Head(s), SortDesc(Tail(s)))

\* s[:n] and s[n:]
Take(s, n) == SubSeq(s, 1, IF n < Len(s) THEN n ELSE Len(s))
Drop(s, n) == SubSeq(s, (IF n < Len(s) THEN n ELSE Len(s)) + 1, Len(s))

\* roll_dice(num, sides, keep, mod) on the rolls it drew; keep = 0 stands for
\* a falsy keep (None or 0)
RollDice(rolls, keep, mod) ==
    IF keep # 0
    THEN LET kept == Take(SortDesc(rolls), keep)
         IN [rolls |-> rolls, kept |-> kept, total |-> SumSeq(kept) + mod]
    ELSE [rolls |-> rolls, kept |-> rolls, total |-> SumSeq(rolls) + mod]

\* roll_stat_detailed(num_dice), drawing from position `from` of the stream
RollStatDetailed(seed, from, num_dice) ==
    RollDice([i \in 1..num_dice |-> Draw(seed, from + i, StatSides)], StatKeep, 0)

\* ------------------------------------------------------ distribute: parsing
\* stats_to_set is an insertion-ordered dict: a sequence of [stat, num] with
\* distinct stats
OPut(od, k, v) ==
    IF \E i \in 1..Len(od) : od[i].stat = k
    THEN [i \in 1..Len(od) |-> IF od[i].stat = k THEN [stat |-> k, num |-> v] ELSE od[i]]
    ELSE Append(od, [stat |-> k, num |-> v])

\* Mode 2, pair by pair from pair i on; the first failure returns
RECURSIVE ParsePairs(_, _, _)
ParsePairs(args, i, od) ==
    IF i > 6
    THEN IF Len(od) < 6 THEN [kind |-> "missing_stats"]
         ELSE [kind |-> "ok", alloc |-> od]
    ELSE LET stat_name == Upper(args[2 * i - 1])
             value == args[2 * i]
         IN IF ~IsKeyText(stat_name)
            THEN [kind |-> "invalid_stat_name", shown |-> args[2 * i - 1]]
            ELSE IF ~IsDigit(value)
            THEN [kind |-> "invalid_value", stat |-> KeyOfText(stat_name), shown |-> value]
            ELSE IF ~IntOk(value)
            THEN [kind |-> "ValueError", shown |-> value]
            ELSE ParsePairs(args, i + 1, OPut(od, KeyOfText(stat_name), IntOf(value)))

\* the argument parsing of distribute (Mode 1, Mode 2, else)
ParseArgs(args, dice_points) ==
    IF Len(args) = 6 /\ \A i \in 1..6 : IsDigit(args[i])
    THEN IF \E i \in 1..6 : ~IntOk(args[i])
         THEN [kind |-> "ValueError",
               shown |-> args[CHOOSE i \in 1..6 :
                                /\ ~IntOk(args[i])
                                /\ \A j \in 1..(i - 1) : IntOk(args[j])]]
         ELSE [kind |-> "ok",
               alloc |-> [i \in 1..6 |-> [stat |-> Keys[i], num |-> IntOf(args[i])]]]
    ELSE IF Len(args) = 12
    THEN ParsePairs(args, 1, <<>>)
    ELSE [kind |-> "invalid_format", target |-> dice_points]

\* --------------------------------------------------- distribute: validation
Abs(n) == IF n < 0 THEN -n ELSE n
AllocTotal(alloc) == SumSeq([i \in 1..Len(alloc) |-> alloc[i].num])

\* Validate with the 18 of the help text enforced
ValidateMax18(alloc, dice_points) ==
    LET current_total == AllocTotal(alloc)
        diff == dice_points - current_total
    IN IF current_total # dice_points
       THEN [kind |-> "mismatch", target |-> dice_points, current |-> current_total,
             status |-> IF diff > 0 THEN "missing" ELSE "too many",
             count |-> Abs(diff)]
       ELSE IF \E i \in 1..Len(alloc) : alloc[i].num < MinDice \/ alloc[i].num > 18
       THEN [kind |-> "below_min", minimum |-> MinDice]
       ELSE [kind |-> "ok"]

\* Validate with the difference taken the other way round
ValidateFlipped(alloc, dice_points) ==
    LET current_total == AllocTotal(alloc)
        diff == current_total - dice_points
    IN IF current_total # dice_points
       THEN [kind |-> "mismatch", target |-> dice_points, current |-> current_total,
             status |-> IF diff > 0 THEN "missing" ELSE "too many",
             count |-> Abs(diff)]
       ELSE IF \E i \in 1..Len(alloc) : alloc[i].num < MinDice
       THEN [kind |-> "below_min", minimum |-> MinDice]
       ELSE [kind |-> "ok"]

\* Validate with the minimum off by one
ValidateMinTwo(alloc, dice_points) ==
    LET current_total == AllocTotal(alloc)
        diff == dice_points - current_total
    IN IF current_total # dice_points
       THEN [kind |-> "mismatch", target |-> dice_points, current |-> current_total,
             status |-> IF diff > 0 THEN "missing" ELSE "too many",
             count |-> Abs(diff)]
       ELSE IF \E i \in 1..Len(alloc) : alloc[i].num < MinDice - 1
       THEN [kind |-> "below_min", minimum |-> MinDice]
       ELSE [kind |-> "ok"]

\* the checks with the minimum looked at whenever a value is below it, the
\* sum only for allocations that pass the minimum
ValidateMinimumFirst(alloc, dice_points) ==
    LET current_total == AllocTotal(alloc)
        diff == dice_points - current_total
    IN IF \E i \in 1..Len(alloc) : alloc[i].num < MinDice
       THEN [kind |-> "below_min", minimum |-> MinDice]
       ELSE IF current_total # dice_points
       THEN [kind |-> "mismatch", target |-> dice_points, current |-> current_total,
             status |-> IF diff > 0 THEN "missing" ELSE "too many",
             count |-> Abs(diff)]
       ELSE [kind |-> "ok"]

Validate(alloc, dice_points) ==
    LET current_total == AllocTotal(alloc)
        diff == dice_points - current_total
    IN IF current_total # dice_points
       THEN [kind |-> "mismatch", target |-> dice_points, current |-> current_total,
             status |-> IF diff > 0 THEN "missing" ELSE "too many",
             count |-> Abs(diff)]
       ELSE IF \E i \in 1..Len(alloc) : alloc[i].num < MinDice
       THEN [kind |-> "below_min", minimum |-> MinDice]
       ELSE [kind |-> "ok"]

\* what distribute answers before it rolls, for a session with this budget:
\* the help, a parse failure, a validation failure, or "ok" with stats_to_set
AllocReply(args, dice_points) ==
    IF Len(args) = 0 THEN [kind |-> "help", target |-> dice_points]
    ELSE LET parsed == ParseArgs(args, dice_points)
         IN IF parsed.kind # "ok" THEN parsed
            ELSE LET checked == Validate(parsed.alloc, dice_points)
                 IN IF checked.kind # "ok" THEN checked ELSE parsed

\* the roll loop with the four highest dice kept
RECURSIVE RollLinesKeepFour(_, _, _, _, _)
RollLinesKeepFour(alloc, i, used, seed, racial_mods) ==
    IF i > Len(alloc) THEN <<>>
    ELSE LET r == RollStatDetailed(seed, used, alloc[i].num)
             sorted_rolls == SortDesc(r.rolls)
             kept_part == Take(sorted_rolls, 4)
             dropped_part == Drop(sorted_rolls, 4)
             base_total == SumSeq(kept_part)
             mod == Get(racial_mods, alloc[i].stat, 0)
         IN << [stat |-> alloc[i].stat, kept |-> kept_part, dropped |-> dropped_part,
                base |-> base_total, mod |-> mod, final |-> base_total + mod] >>
            \o RollLinesKeepFour(alloc, i + 1, used + alloc[i].num, seed, racial_mods)

\* the roll loop with the racial delta left out of the final value
RECURSIVE RollLinesNoRace(_, _, _, _, _)
RollLinesNoRace(alloc, i, used, seed, racial_mods) ==
    IF i > Len(alloc) THEN <<>>
    ELSE LET r == RollStatDetailed(seed, used, alloc[i].num)
             sorted_rolls == SortDesc(r.rolls)
             kept_part == Take(sorted_rolls, 3)
             dropped_part == Drop(sorted_rolls, 3)
             base_total == SumSeq(kept_part)
             mod == Get(racial_mods, alloc[i].stat, 0)
         IN << [stat |-> alloc[i].stat, kept |-> kept_part, dropped |-> dropped_part,
                base |-> base_total, mod |-> mod, final |-> base_total] >>
            \o RollLinesNoRace(alloc, i + 1, used + alloc[i].num, seed, racial_mods)

\* ------------------------------------------------------- distribute: rolling
\* one line of rolls_text per stat, in the order of stats_to_set; the dice of
\* the i-th stat follow those of the stats before it in the stream
RECURSIVE RollLines(_, _, _, _, _)
RollLines(alloc, i, used, seed, racial_mods) ==
    IF i > Len(alloc) THEN <<>>
    ELSE LET r == RollStatDetailed(seed, used, alloc[i].num)
             sorted_rolls == SortDesc(r.rolls)
             kept_part == Take(sorted_rolls, 3)
             dropped_part == Drop(sorted_rolls, 3)
             base_total == SumSeq(kept_part)
             mod == Get(racial_mods, alloc[i].stat, 0)
         IN << [stat |-> alloc[i].stat, kept |-> kept_part, dropped |-> dropped_part,
                base |-> base_total, mod |-> mod, final |-> base_total + mod] >>
            \o RollLines(alloc, i + 1, used + alloc[i].num, seed, racial_mods)

\* final_stats: the last line of each stat decides
FinalStats(lines) ==
    [k \in {lines[i].stat : i \in 1..Len(lines)} |->
        lines[CHOOSE i \in 1..Len(lines) :
                 /\ lines[i].stat = k
                 /\ \A j \in (i + 1)..Len(lines) : lines[j].stat # k].final]

\* ----------------------------------------------------------------- sessions
HasSession(u) == u \in DOMAIN active_creations

\* the identities of the creation dicts something still refers to, other than
\* through user u's entry of active_creations
ViewRefs == {v.creation : v \in BagToSet(views)}
OidsInUse(u) == ViewRefs \cup {active_creations[w].oid : w \in DOMAIN active_creations \ {u}}
FreshOid(u) == CHOOSE n \in 1..(Cardinality(OidsInUse(u)) + 1) : n \notin OidsInUse(u)

\* 40 - race_data.get("Race Points", 10)
DicePoints(race_data) == BasePoints - Get(race_data, "RacePoints", DefaultRacePoints)

\* ------------------------------------------------------------------- create
\* the creation dict for the t-th race of the catalog, as the object oid
NewCreation(oid, t) ==
    [oid |-> oid,
     race_name |-> RaceCatalog[t].name,
     race_data |-> RaceCatalog[t].data,
     dice_points |-> DicePoints(RaceCatalog[t].data),
     stats |-> EmptyDict]

\* create that updates the existing dict in place and forgets to clear stats
CreateResultKeepsStats(u, race_name) ==
    IF race_name = NoArg
    THEN [creations |-> active_creations, reply |-> [kind |-> "usage"]]
    ELSE LET t == FindRace(race_name)
         IN IF t = 0
            THEN [creations |-> active_creations,
                  reply |-> [kind |-> "race_not_found", shown |-> race_name]]
            ELSE LET fresh == NewCreation(FreshOid(u), t)
                 IN [creations |->
                        Put(active_creations, u,
                            IF HasSession(u)
                            THEN [fresh EXCEPT !.stats = active_creations[u].stats]
                            ELSE fresh),
                     reply |-> [kind |-> "started", race |-> RaceCatalog[t].name,
                                dice_points |-> fresh.dice_points]]

\* what the create handler leaves behind: the session map and the reply
CreateResult(u, race_name) ==
    IF race_name = NoArg
    THEN [creations |-> active_creations, reply |-> [kind |-> "usage"]]
    ELSE LET t == FindRace(race_name)
         IN IF t = 0
            THEN [creations |-> active_creations,
                  reply |-> [kind |-> "race_not_found", shown |-> race_name]]
            ELSE LET race_data == RaceCatalog[t].data
                     dice_points == DicePoints(race_data)
                 IN [creations |-> Put(active_creations, u, NewCreation(FreshOid(u), t)),
                     reply |-> [kind |-> "started", race |-> RaceCatalog[t].name,
                                dice_points |-> dice_points]]

\* --------------------------------------------------------------- distribute
\* distribute that spends the points it allocates
DistributeResultSpends(u, args, seed) ==
    IF ~HasSession(u)
    THEN [creations |-> active_creations, views |-> views,
          reply |-> [kind |-> "no_creation"]]
    ELSE
    LET creation == active_creations[u]
        dice_points == creation.dice_points
        same(reply) == [creations |-> active_creations, views |-> views, reply |-> reply]
        answer == AllocReply(args, dice_points)
    IN IF answer.kind # "ok" THEN same(answer)
       ELSE  LET racial_mods == ParseRacialModifiers(creation.race_data)
                 rolls_text == RollLines(answer.alloc, 1, 0, seed, racial_mods)
                 final_stats == FinalStats(rolls_text)
                 rolled == Put([creation EXCEPT !.stats = final_stats,
                                                !.dice_points = @ - AllocTotal(answer.alloc)],
                               "stat_history", rolls_text)
                 flexible == Get(racial_mods, "ANY", 0)
             IN [creations |-> Put(active_creations, u, rolled),
                 views |-> IF flexible > 0
                           THEN views (+) SetToBag({[author |-> u,
                                                     creation |-> creation.oid,
                                                     roll_history |-> rolls_text,
                                                     bonus_val |-> flexible]})
                           ELSE views,
                 reply |-> [kind |-> "rolled", prompt |-> flexible > 0]]

\* distribute that rolls only for a session without stats and otherwise
\* keeps the stats and the narrative the session has
DistributeResultRollsOnce(u, args, seed) ==
    IF ~HasSession(u)
    THEN [creations |-> active_creations, views |-> views,
          reply |-> [kind |-> "no_creation"]]
    ELSE
    LET creation == active_creations[u]
        dice_points == creation.dice_points
        same(reply) == [creations |-> active_creations, views |-> views, reply |-> reply]
        answer == AllocReply(args, dice_points)
    IN IF answer.kind # "ok" THEN same(answer)
       ELSE  LET racial_mods == ParseRacialModifiers(creation.race_data)
                 rolls_text == RollLines(answer.alloc, 1, 0, seed, racial_mods)
                 final_stats == FinalStats(rolls_text)
                 rolled == IF DOMAIN creation.stats # {} THEN creation
                           ELSE Put([creation EXCEPT !.stats = final_stats],
                                    "stat_history", rolls_text)
                 flexible == Get(racial_mods, "ANY", 0)
             IN [creations |-> Put(active_creations, u, rolled),
                 views |-> IF flexible > 0
                           THEN views (+) SetToBag({[author |-> u,
                                                     creation |-> creation.oid,
                                                     roll_history |-> rolls_text,
                                                     bonus_val |-> flexible]})
                           ELSE views,
                 reply |-> [kind |-> "rolled", prompt |-> flexible > 0]]

\* what the distribute handler leaves behind when it draws its dice from
\* stream `seed`: the session map, the views and the first reply
DistributeResult(u, args, seed) ==
    IF ~HasSession(u)
    THEN [creations |-> active_creations, views |-> views,
          reply |-> [kind |-> "no_creation"]]
    ELSE
    LET creation == active_creations[u]
        dice_points == creation.dice_points
        same(reply) == [creations |-> active_creations, views |-> views, reply |-> reply]
        answer == AllocReply(args, dice_points)
    IN IF answer.kind # "ok" THEN same(answer)
       ELSE  LET racial_mods == ParseRacialModifiers(creation.race_data)
                 rolls_text == RollLines(answer.alloc, 1, 0, seed, racial_mods)
                 final_stats == FinalStats(rolls_text)
                 rolled == Put([creation EXCEPT !.stats = final_stats],
                               "stat_history", rolls_text)
                 flexible == Get(racial_mods, "ANY", 0)
             IN [creations |-> Put(active_creations, u, rolled),
                 views |-> IF flexible > 0
                           THEN views (+) SetToBag({[author |-> u,
                                                     creation |-> creation.oid,
                                                     roll_history |-> rolls_text,
                                                     bonus_val |-> flexible]})
                           ELSE views,
                 reply |-> [kind |-> "rolled", prompt |-> flexible > 0]]

\* ------------------------------------------------- BonusSelectView callback
\* the callback without the check of who clicked
BonusResultAnyone(v, clicker, stat) ==
    LET new_history == Append(v.roll_history, [bonus |-> v.bonus_val, stat |-> stat])
        apply(c) == Put([c EXCEPT !.stats = Put(c.stats, stat, Get(c.stats, stat, 0) + v.bonus_val)],
                        "stat_history", new_history)
    IN [creations |-> [w \in DOMAIN active_creations |->
                          IF active_creations[w].oid = v.creation
                          THEN apply(active_creations[w])
                          ELSE active_creations[w]],
        views |-> views (-) SetToBag({v}),
        reply |-> [kind |-> "bonus_applied", stat |-> stat]]

\* the callback with the view stopped before the check of the clicking user
BonusResultStopsFirst(v, clicker, stat) ==
    IF clicker # v.author
    THEN [creations |-> active_creations, views |-> views (-) SetToBag({v}),
          reply |-> [kind |-> "not_your_session"]]
    ELSE
    LET new_history == Append(v.roll_history, [bonus |-> v.bonus_val, stat |-> stat])
        apply(c) == Put([c EXCEPT !.stats = Put(c.stats, stat, Get(c.stats, stat, 0) + v.bonus_val)],
                        "stat_history", new_history)
    IN [creations |-> [w \in DOMAIN active_creations |->
                          IF active_creations[w].oid = v.creation
                          THEN apply(active_creations[w])
                          ELSE active_creations[w]],
        views |-> views (-) SetToBag({v}),
        reply |-> [kind |-> "bonus_applied", stat |-> stat]]

\* the callback applying the bonus to whatever session its author holds at
\* the time of the click, looked up in active_creations
BonusResultLooksUp(v, clicker, stat) ==
    IF clicker # v.author
    THEN [creations |-> active_creations, views |-> views,
          reply |-> [kind |-> "not_your_session"]]
    ELSE
    LET new_history == Append(v.roll_history, [bonus |-> v.bonus_val, stat |-> stat])
        apply(c) == Put([c EXCEPT !.stats = Put(c.stats, stat, Get(c.stats, stat, 0) + v.bonus_val)],
                        "stat_history", new_history)
    IN [creations |-> [w \in DOMAIN active_creations |->
                          IF w = v.author
                          THEN apply(active_creations[w])
                          ELSE active_creations[w]],
        views |-> views (-) SetToBag({v}),
        reply |-> [kind |-> "bonus_applied", stat |-> stat]]

\* a click by `clicker` on the button `stat` of view v
BonusResult(v, clicker, stat) ==
    IF clicker # v.author
    THEN [creations |-> active_creations, views |-> views,
          reply |-> [kind |-> "not_your_session"]]
    ELSE
    LET new_history == Append(v.roll_history, [bonus |-> v.bonus_val, stat |-> stat])
        apply(c) == Put([c EXCEPT !.stats = Put(c.stats, stat, Get(c.stats, stat, 0) + v.bonus_val)],
                        "stat_history", new_history)
    IN [creations |-> [w \in DOMAIN active_creations |->
                          IF active_creations[w].oid = v.creation
                          THEN apply(active_creations[w])
                          ELSE active_creations[w]],
        views |-> views (-) SetToBag({v}),
        reply |-> [kind |-> "bonus_applied", stat |-> stat]]

\* --------------------------------------------------------------- add / remove
NoValue == <<>>     \* value is None; an integer n is passed as <<n>>

\* add/remove without the "roll stats first" check, a missing stat counting as 0
AdjustResultNoRollCheck(u, stat, value, sign) ==
    LET same(reply) == [creations |-> active_creations, reply |-> reply]
    IN IF stat = NoArg \/ value = NoValue THEN same([kind |-> "help"])
       ELSE IF ~HasSession(u) THEN same([kind |-> "no_creation"])
       ELSE
       LET creation == active_creations[u]
       IN IF ~IsKeyText(Upper(stat)) THEN same([kind |-> "invalid_stat_name"])
          ELSE
          LET k == KeyOfText(Upper(stat))
              updated == Get(creation.stats, k, 0) + sign * value[1]
          IN [creations |->
                 Put(active_creations, u,
                     [creation EXCEPT !.stats = Put(creation.stats, k, updated)]),
              reply |-> [kind |-> "updated", stat |-> k, value |-> updated]]

\* add/remove that adds whatever the command
AdjustResultAlwaysAdds(u, stat, value, sign) ==
    LET same(reply) == [creations |-> active_creations, reply |-> reply]
    IN IF stat = NoArg \/ value = NoValue THEN same([kind |-> "help"])
       ELSE IF ~HasSession(u) THEN same([kind |-> "no_creation"])
       ELSE
       LET creation == active_creations[u]
       IN IF DOMAIN creation.stats = {} THEN same([kind |-> "roll_first"])
          ELSE IF ~IsKeyText(Upper(stat)) THEN same([kind |-> "invalid_stat_name"])
          ELSE
          LET k == KeyOfText(Upper(stat))
          IN IF k \notin DOMAIN creation.stats THEN same([kind |-> "KeyError"])
             ELSE LET updated == creation.stats[k] + value[1]
                  IN [creations |->
                         Put(active_creations, u,
                             [creation EXCEPT !.stats = Put(creation.stats, k, updated)]),
                      reply |-> [kind |-> "updated", stat |-> k, value |-> updated]]

\* add_stat (sign = 1) and remove_stat (sign = -1)
AdjustResult(u, stat, value, sign) ==
    LET same(reply) == [creations |-> active_creations, reply |-> reply]
    IN IF stat = NoArg \/ value = NoValue THEN same([kind |-> "help"])
       ELSE IF ~HasSession(u) THEN same([kind |-> "no_creation"])
       ELSE
       LET creation == active_creations[u]
       IN IF DOMAIN creation.stats = {} THEN same([kind |-> "roll_first"])
          ELSE IF ~IsKeyText(Upper(stat)) THEN same([kind |-> "invalid_stat_name"])
          ELSE
          LET k == KeyOfText(Upper(stat))
          IN IF k \notin DOMAIN creation.stats THEN same([kind |-> "KeyError"])
             ELSE LET updated == creation.stats[k] + sign * value[1]
                  IN [creations |->
                         Put(active_creations, u,
                             [creation EXCEPT !.stats = Put(creation.stats, k, updated)]),
                      reply |-> [kind |-> "updated", stat |-> k, value |-> updated]]

\* --------------------------------------------------------------------- save
\* the list save_char works on: characters[uid], [] when uid is not in the file
CharsOf(u) == Get(characters, u, <<>>)

\* the duplicate check without .lower()
NameTakenExact(chars, name) ==
    \E i \in 1..Len(chars) : chars[i].name = name

NameTaken(chars, name) ==
    \E i \in 1..Len(chars) : Lower(chars[i].name) = Lower(name)

Without(d, k) == [x \in DOMAIN d \ {k} |-> d[x]]

\* save_char without the del of the session
SaveResultKeepsSession(u, name) ==
    LET same(reply) == [creations |-> active_creations, characters |-> characters,
                        reply |-> reply]
    IN IF ~HasSession(u) \/ DOMAIN active_creations[u].stats = {}
       THEN same([kind |-> "no_pending"])
       ELSE IF name = NoArg THEN same([kind |-> "usage"])
       ELSE
       LET creation == active_creations[u]
       IN IF NameTaken(CharsOf(u), name)
          THEN same([kind |-> "name_taken", shown |-> name])
          ELSE
          LET base == [name |-> name, race |-> creation.race_name, class |-> "None",
                       stats |-> creation.stats]
              new_char == IF "stat_history" \in DOMAIN creation
                          THEN Put(base, "stat_history", creation.stat_history)
                          ELSE base
          IN [creations |-> active_creations,
              characters |-> Put(characters, u, Append(CharsOf(u), new_char)),
              reply |-> [kind |-> "saved", name |-> name, race |-> creation.race_name]]

\* save_char that only checks that a session exists
SaveResultNoStatsCheck(u, name) ==
    LET same(reply) == [creations |-> active_creations, characters |-> characters,
                        reply |-> reply]
    IN IF ~HasSession(u)
       THEN same([kind |-> "no_pending"])
       ELSE IF name = NoArg THEN same([kind |-> "usage"])
       ELSE
       LET creation == active_creations[u]
       IN IF NameTaken(CharsOf(u), name)
          THEN same([kind |-> "name_taken", shown |-> name])
          ELSE
          LET base == [name |-> name, race |-> creation.race_name, class |-> "None",
                       stats |-> creation.stats]
              new_char == IF "stat_history" \in DOMAIN creation
                          THEN Put(base, "stat_history", creation.stat_history)
                          ELSE base
          IN [creations |-> Without(active_creations, u),
              characters |-> Put(characters, u, Append(CharsOf(u), new_char)),
              reply |-> [kind |-> "saved", name |-> name, race |-> creation.race_name]]

\* save_char when load_json("characters.json") gives `file`: the session
\* map, the content written to characters.json (the file is left alone when
\* nothing is written), the reply
SaveOn(u, name, file) ==
    LET same(reply) == [creations |-> active_creations, characters |-> characters,
                        reply |-> reply]
        chars == Get(file, u, <<>>)
    IN IF ~HasSession(u) \/ DOMAIN active_creations[u].stats = {}
       THEN same([kind |-> "no_pending"])
       ELSE IF name = NoArg THEN same([kind |-> "usage"])
       ELSE
       LET creation == active_creations[u]
       IN IF NameTaken(chars, name)
          THEN same([kind |-> "name_taken", shown |-> name])
          ELSE
          LET base == [name |-> name, race |-> creation.race_name, class |-> "None",
                       stats |-> creation.stats]
              new_char == IF "stat_history" \in DOMAIN creation
                          THEN Put(base, "stat_history", creation.stat_history)
                          ELSE base
          IN [creations |-> Without(active_creations, u),
              characters |-> Put(file, u, Append(chars, new_char)),
              reply |-> [kind |-> "saved", name |-> name, race |-> creation.race_name]]

\* what save_char leaves behind: the session map, characters.json, the reply
SaveResult(u, name) == SaveOn(u, name, characters)

\* ------------------------------------------------------------------- rename
\* rename when load_json("characters.json") gives `file`
RenameOn(u, old_name, new_name, file) ==
    LET same(reply) == [characters |-> characters, reply |-> reply]
        chars == Get(file, u, <<>>)
        hits == {i \in 1..Len(chars) : Lower(chars[i].name) = Lower(old_name)}
    IN IF old_name = NoArg \/ new_name = NoArg THEN same([kind |-> "usage"])
       ELSE IF u \notin DOMAIN file THEN same([kind |-> "no_characters"])
       ELSE IF hits = {} THEN same([kind |-> "not_found", shown |-> old_name])
       ELSE IF NameTaken(chars, new_name)
       THEN same([kind |-> "name_taken", shown |-> new_name])
       ELSE LET i == CHOOSE i \in hits : \A j \in hits : i <= j
            IN [characters |-> [file EXCEPT ![u][i].name = new_name],
                reply |-> [kind |-> "renamed", old |-> old_name, new |-> new_name]]

RenameResult(u, old_name, new_name) == RenameOn(u, old_name, new_name, characters)

\* ---------------------------------------------------------------- edit stat
\* edit_stat when load_json("characters.json") gives `file`: the content
\* written to characters.json and the reply
EditStatOn(u, name, stat, value, file) ==
    LET same(reply) == [characters |-> characters, reply |-> reply]
        chars == Get(file, u, <<>>)
        hits == {i \in 1..Len(chars) : Lower(chars[i].name) = Lower(name)}
    IN IF name = NoArg \/ stat = NoArg \/ value = NoValue THEN same([kind |-> "usage"])
       ELSE IF u \notin DOMAIN file THEN same([kind |-> "no_characters"])
       ELSE IF hits = {} THEN same([kind |-> "not_found", shown |-> name])
       ELSE IF ~IsKeyText(Upper(stat)) THEN same([kind |-> "invalid_stat"])
       ELSE LET i == CHOOSE i \in hits : \A j \in hits : i <= j
                k == KeyOfText(Upper(stat))
            IN [characters |-> [file EXCEPT ![u][i].stats = Put(@, k, value[1])],
                reply |-> [kind |-> "stat_updated", name |-> chars[i].name, stat |-> k,
                           old_val |-> Get(chars[i].stats, k, 0), value |-> value[1]]]

\* ------------------------------------------------------------------- inputs
\* str(n) for n >= 0
DigitChar(d) == CHOOSE c \in DecimalChars : DigitVal(c) = d
RECURSIVE NumText(_)
NumText(n) == IF n < 10 THEN <<DigitChar(n)>>
              ELSE NumText(n \div 10) \o <<DigitChar(n % 10)>>

\* ------------------------------------------------------- dice expressions
DiceMaxCount == 100        \* if num > 100: num = 100
None == <<>>               \* an absent keep; the keep k is <<k>>

\* str.strip(), the blank being the only whitespace the model writes
RECURSIVE LStrip(_)
LStrip(s) == IF Len(s) > 0 /\ Head(s) = " " THEN LStrip(Tail(s)) ELSE s
RECURSIVE RStrip(_)
RStrip(s) == IF Len(s) > 0 /\ s[Len(s)] = " " THEN RStrip(SubSeq(s, 1, Len(s) - 1)) ELSE s
Strip(s) == RStrip(LStrip(s))

\* the length of the longest run of \d from position i of s
RECURSIVE DigitRun(_, _)
DigitRun(s, i) ==
    IF i <= Len(s) /\ s[i] \in DecimalChars THEN 1 + DigitRun(s, i + 1) ELSE 0

\* the position \s* reaches from position i of s
RECURSIVE SkipBlanks(_, _)
SkipBlanks(s, i) == IF i <= Len(s) /\ s[i] = " " THEN SkipBlanks(s, i + 1) ELSE i

\* re.fullmatch(r"^(\d*)d(\d+)(?:\s*k\s*(\d+))?(?:\s*([\+\-]\d+))?$", e):
\* the four groups, an unmatched optional group being None
MatchRoll(e) ==
    LET n1 == DigitRun(e, 1)
        p1 == n1 + 1
        n2 == DigitRun(e, p1 + 1)
        p2 == p1 + 1 + n2
        kq == SkipBlanks(e, p2)
        has_k == kq <= Len(e) /\ e[kq] = "k"
        k1 == SkipBlanks(e, kq + 1)
        n3 == DigitRun(e, k1)
        p3 == IF has_k THEN k1 + n3 ELSE p2
        mq == SkipBlanks(e, p3)
        has_m == mq <= Len(e) /\ e[mq] \in {"+", "-"}
        n4 == DigitRun(e, mq + 1)
        p4 == IF has_m THEN mq + 1 + n4 ELSE p3
    IN IF /\ p1 <= Len(e) /\ e[p1] = "d"
          /\ n2 >= 1
          /\ has_k => n3 >= 1
          /\ has_m => n4 >= 1
          /\ p4 = Len(e) + 1
       THEN [ok |-> TRUE,
             num_str |-> SubSeq(e, 1, n1),
             sides_str |-> SubSeq(e, p1 + 1, p1 + n2),
             keep_str |-> IF has_k THEN SubSeq(e, k1, k1 + n3 - 1) ELSE None,
             mod_str |-> IF has_m THEN SubSeq(e, mq, mq + n4) ELSE None]
       ELSE [ok |-> FALSE]

\* str(n) for any integer n
IntText(n) == IF n < 0 THEN <<"-">> \o NumText(-n) ELSE NumText(n)

\* int(s) for a signed group [\+\-]\d+
SignedOf(s) == IF s[1] = "-" THEN -IntOf(Tail(s)) ELSE IntOf(Tail(s))

\* a keep that is neither None nor 0
Truthy(keep) == keep # None /\ keep[1] # 0

\* f"{num}d{sides}{keep_part}{mod_part}"
CleanExpr(num, sides, keep, mod) ==
    LET keep_part == IF Truthy(keep) THEN <<"k">> \o NumText(keep[1]) ELSE <<>>
        mod_part == IF mod # 0
                    THEN (IF mod > 0 THEN <<"+">> ELSE <<>>) \o IntText(mod)
                    ELSE <<>>
    IN NumText(num) \o <<"d">> \o NumText(sides) \o keep_part \o mod_part

\* the safety checks with keep clamped before the count is
SafetyChecksKeepFirst(num, sides, keep, mod) ==
    IF sides < 1 THEN [kind |-> "none"]
    ELSE LET num2 == IF num > DiceMaxCount THEN DiceMaxCount ELSE num
             keep2 == IF Truthy(keep) /\ keep[1] > num THEN <<num>> ELSE keep
         IN [kind |-> "ok", num |-> num2, sides |-> sides, keep |-> keep2, mod |-> mod,
             clean |-> CleanExpr(num2, sides, keep2, mod)]

\* the safety checks and the tuple parse_roll returns; [kind |-> "none"] is
\* the None it returns for an expression it rejects
SafetyChecks(num, sides, keep, mod) ==
    IF sides < 1 THEN [kind |-> "none"]
    ELSE LET num2 == IF num > DiceMaxCount THEN DiceMaxCount ELSE num
             keep2 == IF Truthy(keep) /\ keep[1] > num2 THEN <<num2>> ELSE keep
         IN [kind |-> "ok", num |-> num2, sides |-> sides, keep |-> keep2, mod |-> mod,
             clean |-> CleanExpr(num2, sides, keep2, mod)]

\* Dice.parse_roll(expr); [kind |-> "ValueError"] when int() raises
ParseRoll(expr) ==
    LET e == Strip(Lower(expr))
    IN IF IsDigit(e)
       THEN IF ~IntOk(e) THEN [kind |-> "ValueError"]
            ELSE LET sides == IntOf(e)
                 IN IF sides > 0
                    THEN [kind |-> "ok", num |-> 1, sides |-> sides, keep |-> None, mod |-> 0,
                          clean |-> <<"1", "d">> \o NumText(sides)]
                    ELSE [kind |-> "none"]
       ELSE LET m == MatchRoll(e)
            IN IF m.ok
               THEN SafetyChecks(IF m.num_str # <<>> THEN IntOf(m.num_str) ELSE 1,
                                 IntOf(m.sides_str),
                                 IF m.keep_str # None THEN <<IntOf(m.keep_str)>> ELSE None,
                                 IF m.mod_str # None THEN SignedOf(m.mod_str) ELSE 0)
               ELSE [kind |-> "none"]

\* ------------------------------------------------------- the roll command
\* expression.split(",")
RECURSIVE Split(_)
Split(s) ==
    IF \E i \in 1..Len(s) : s[i] = ","
    THEN LET i == CHOOSE i \in 1..Len(s) : s[i] = "," /\ \A j \in 1..(i - 1) : s[j] # ","
         IN <<SubSeq(s, 1, i - 1)>> \o Split(SubSeq(s, i + 1, Len(s)))
    ELSE <<s>>

\* the integer roll_dice gets as keep, 0 standing for None as well
KeepArg(keep) == IF keep = None THEN 0 ELSE keep[1]

\* the body of the loop for an expression parse_roll accepted, r being what
\* roll_dice returned: the entry appended to results, or the IndexError of
\* str(all_rolls[0]) when a single die was asked for and none was rolled
RollRolled(expr, parsed, r) ==
    IF ~Truthy(parsed.keep) /\ ~(parsed.num > 1) /\ r.rolls = <<>>
    THEN [kind |-> "IndexError"]
    ELSE [kind |-> "entry", used |-> parsed.num,
          entry |-> [kind |-> "rolled", expr |-> expr, clean |-> parsed.clean,
                     all_rolls |-> r.rolls, kept_rolls |-> r.kept, total |-> r.total]]

\* the body of the loop for a non-empty expression, parsed being what
\* parse_roll returned, `used` dice drawn so far from stream `seed`
RollParsed(expr, parsed, used, seed) ==
    IF parsed.kind = "ValueError" THEN [kind |-> "ValueError"]
    ELSE IF parsed.kind = "none"
    THEN [kind |-> "entry", used |-> 0, entry |-> [kind |-> "invalid", expr |-> expr]]
    ELSE RollRolled(expr, parsed,
                    RollDice([j \in 1..parsed.num |-> Draw(seed, used + j, parsed.sides)],
                             KeepArg(parsed.keep), parsed.mod))

\* one turn of the loop of Dice.roll: an empty expression is skipped
RollOne(expr, used, seed) ==
    IF expr = <<>> THEN [kind |-> "skip"]
    ELSE RollParsed(expr, ParseRoll(expr), used, seed)

\* the loop of Dice.roll over raw_exprs from the i-th on, `used` dice drawn so
\* far from stream `seed`: the results list, or the exception that ends the
\* command
RECURSIVE RollEach(_, _, _, _, _)
RECURSIVE RollNext(_, _, _, _, _, _)
RollNext(raw_exprs, i, used, seed, results, turn) ==
    IF turn.kind = "skip" THEN RollEach(raw_exprs, i + 1, used, seed, results)
    ELSE IF turn.kind = "entry"
    THEN RollEach(raw_exprs, i + 1, used + turn.used, seed, Append(results, turn.entry))
    ELSE [kind |-> turn.kind, results |-> results]
RollEach(raw_exprs, i, used, seed, results) ==
    IF i > Len(raw_exprs) THEN [kind |-> "done", results |-> results]
    ELSE RollNext(raw_exprs, i, used, seed, results, RollOne(raw_exprs[i], used, seed))

\* Dice.roll(ctx, expression=...): what the command sends, or the exception
\* it raises
RollResult(expression, seed) ==
    IF expression = None THEN [kind |-> "help"]
    ELSE LET raw_exprs == [i \in 1..Len(Split(expression)) |-> Strip(Split(expression)[i])]
             r == RollEach(raw_exprs, 1, 0, seed, <<>>)
         IN IF r.kind # "done" THEN [kind |-> r.kind]
            ELSE IF r.results = <<>> THEN [kind |-> "usage"]
            ELSE [kind |-> "rolled", results |-> r.results]

\* ---------------------------------------------------- class recommendations
\* classes.json: the file may be missing or unreadable (load_json gives {}),
\* hold a JSON array, or hold an object whose "classes" entry, when there is
\* one, is a list of class records, [type |-> "list", items |-> ...], or
\* null, [type |-> "null"]. A class record may carry name, primary_stats and
\* secondary_stats, each optional.
RecLimit == 5              \* sorted(...)[:5]
DefaultStat == 10          \* stats.get(s, 10)
\* scores are counted in twelfths, so that the mean of one, two or three
\* values and its half are whole numbers; the jitter is counted in hundredths
ScoreScale == 12
ListOf(items) == [type |-> "list", items |-> items]

\* load_json("classes.json")
LoadClasses(file) ==
    IF file.kind \in {"missing", "unreadable"} THEN [kind |-> "dict", data |-> EmptyDict]
    ELSE file

\* [stats.get(s, 10) for s in slist]
GetVals(stats, slist) == [i \in 1..Len(slist) |-> Get(stats, slist[i], DefaultStat)]

\* statistics.mean(get_vals(primaries)) * 1.0 if primaries else 0
PScore(stats, cls) ==
    LET primaries == Get(cls, "primary_stats", <<>>)
    IN IF primaries # <<>>
       THEN (SumSeq(GetVals(stats, primaries)) * ScoreScale) \div Len(primaries)
       ELSE 0

\* statistics.mean(get_vals(secondaries)) * 0.5 if secondaries else 0
SScore(stats, cls) ==
    LET secondaries == Get(cls, "secondary_stats", <<>>)
    IN IF secondaries # <<>>
       THEN (SumSeq(GetVals(stats, secondaries)) * (ScoreScale \div 2)) \div Len(secondaries)
       ELSE 0

\* a score in which the primary attributes count against the class
TotalScoreAgainst(stats, cls) == SScore(stats, cls) - PScore(stats, cls)

\* total_score = p_score + s_score
TotalScore(stats, cls) == PScore(stats, cls) + SScore(stats, cls)

\* an ascending sort by score
RECURSIVE InsertByScoreAscending(_, _)
InsertByScoreAscending(x, s) ==
    IF Len(s) = 0 THEN <<x>>
    ELSE IF x.score <= Head(s).score THEN <<x>> \o s
    ELSE <<Head(s)>> \o InsertByScoreAscending(x, Tail(s))

\* sorted(recs, key=lambda x: x["score"], reverse=True): descending, entries
\* of equal score in their order in recs
RECURSIVE InsertByScore(_, _)
InsertByScore(x, s) ==
    IF Len(s) = 0 THEN <<x>>
    ELSE IF x.score >= Head(s).score THEN <<x>> \o s
    ELSE <<Head(s)>> \o InsertByScore(x, Tail(s))

RECURSIVE SortByScore(_)
SortByScore(recs) ==
    IF Len(recs) = 0 THEN <<>> ELSE InsertByScore(Head(recs), SortByScore(Tail(recs)))

\* the list recs after the loop over classes, variance[i] being the
\* random.uniform(0.95, 1.05) drawn for the i-th class, in hundredths
RecsOf(stats, classes, variance) ==
    [i \in 1..Len(classes) |->
        [name |-> Get(classes[i], "name", "Unknown"),
         score |-> TotalScore(stats, classes[i]) * variance[i]]]

\* get_recommendations(stats): the list returned, or the exception raised
\* when the "classes" entry is not a list
GetRecommendations(stats, file, variance) ==
    LET classes_data == LoadClasses(file)
        classes == IF classes_data.kind = "dict"
                   THEN Get(classes_data.data, "classes", ListOf(<<>>))
                   ELSE ListOf(<<>>)
    IN IF classes.type # "list" THEN [kind |-> "TypeError"]
       ELSE [kind |-> "ok",
             recs |-> Take(SortByScore(RecsOf(stats, classes.items, variance)), RecLimit)]

\* ------------------------------------------------------------ command tasks
\* discord.py runs each command in a task of one event loop: a handler runs
\* without interruption from one await to the next. A task is dispatched,
\* runs its handler up to the first await (every read and write of
\* active_creations and characters.json happens there), and finishes when
\* the awaited send returns. `seen` remembers characters.json as it was when
\* the task was dispatched, and `waiting` the tasks that were dispatched and
\* had not run yet when the handler ran.
Tasks == {"t1", "t2"}
Idle == [pc |-> "idle"]
NoTasks == [t \in Tasks |-> Idle]

\* load_json("characters.json") of a task that works on the file as it was
\* when the task was dispatched
LoadJsonAtDispatch(t) == running[t].seen

\* load_json("characters.json") in the handler of task t: the file as it is
\* when the handler runs
LoadJson(t) == characters

\* the result of a handler that leaves characters.json alone, and of one
\* that leaves the session map alone
OnSessions(r) == [creations |-> r.creations, characters |-> characters, reply |-> r.reply]
OnFile(r) == [creations |-> active_creations, characters |-> r.characters, reply |-> r.reply]

\* what the handler of a task leaves behind when it runs up to its first
\* await, load_json("characters.json") giving `file`
HandlerOn(task, file) ==
    CASE task.cmd = "create" -> OnSessions(CreateResult(task.user, task.args[1]))
      [] task.cmd = "dr" -> OnSessions(DistributeResult(task.user, task.args, 0))
      [] task.cmd = "save" -> SaveOn(task.user, task.args[1], file)
      [] task.cmd = "rename" -> OnFile(RenameOn(task.user, task.args[1], task.args[2], file))
      [] task.cmd = "edit_stat" ->
           OnFile(EditStatOn(task.user, task.args[1], task.args[2], task.args[3], file))

HandlerResult(t) == HandlerOn(running[t], LoadJson(t))

\* "a b c d e f" and "K1 v1 K2 v2 ..." as token lists
Positional(values) == [i \in 1..Len(values) |-> NumText(values[i])]
Pairs(names, values) ==
    [i \in 1..(2 * Len(names)) |->
        IF i % 2 = 1 THEN names[(i + 1) \div 2] ELSE NumText(values[i \div 2])]

Thorin == <<"T", "h", "o", "r", "i", "n">>
Bilbo == <<"B", "i", "l", "b", "o">>
Orc == <<"O", "r", "c">>

\* -------------------------------------------------------------------- state
Init ==
    /\ active_creations = EmptyDict
    /\ views = EmptyBag
    /\ characters = EmptyDict
    /\ last = [op |-> "none"]
    /\ phase = [u \in Users |-> "none"]
    /\ adjusts = 0
    /\ running = NoTasks

\* what `last` records of a handler run: the command, who issued it, its
\* arguments and the message sent back
Said(op, u, args, reply) == [op |-> op, user |-> u, args |-> args, reply |-> reply]

Create(u, race_name) ==
    LET r == CreateResult(u, race_name)
    IN /\ active_creations' = r.creations
       /\ last' = Said("create", u, <<race_name>>, r.reply)
       /\ phase' = IF r.reply.kind = "started" THEN [phase EXCEPT ![u] = "created"] ELSE phase
       /\ UNCHANGED <<views, characters, adjusts, running>>

\* view_cap bounds the prompts alive at once
Distribute(u, args, seed, view_cap) ==
    LET r == DistributeResult(u, args, seed)
    IN /\ BagCardinality(r.views) <= view_cap
       /\ active_creations' = r.creations
       /\ views' = r.views
       /\ last' = Said("dr", u, args, r.reply)
       /\ phase' = IF r.reply.kind = "rolled" THEN [phase EXCEPT ![u] = "distributed"] ELSE phase
       /\ UNCHANGED <<characters, adjusts, running>>

BonusClick(v, clicker, stat) ==
    LET r == BonusResult(v, clicker, stat)
    IN /\ active_creations' = r.creations
       /\ views' = r.views
       /\ last' = Said("bonus", clicker, <<v.author, stat>>, r.reply)
       /\ UNCHANGED <<characters, phase, adjusts, running>>

\* discord.ui.View(timeout=300): the view stops dispatching
ViewTimeout(v) ==
    /\ views' = views (-) SetToBag({v})
    /\ last' = [op |-> "view_timeout"]
    /\ UNCHANGED <<active_creations, characters, phase, adjusts, running>>

\* cap bounds the add/remove commands that succeed in one behaviour
Adjust(op, u, stat, value, sign, cap) ==
    LET r == AdjustResult(u, stat, value, sign)
    IN /\ r.reply.kind = "updated" => adjusts < cap
       /\ active_creations' = r.creations
       /\ last' = Said(op, u, <<stat, value>>, r.reply)
       /\ adjusts' = IF r.reply.kind = "updated" THEN adjusts + 1 ELSE adjusts
       /\ UNCHANGED <<views, characters, phase, running>>

AddStat(u, stat, value, cap) == Adjust("add", u, stat, value, 1, cap)
RemoveStat(u, stat, value, cap) == Adjust("remove", u, stat, value, -1, cap)

SaveChar(u, name) ==
    LET r == SaveResult(u, name)
    IN /\ r.reply.kind = "saved" => Len(CharsOf(u)) < MaxChars
       /\ active_creations' = r.creations
       /\ characters' = r.characters
       /\ last' = Said("save", u, <<name>>, r.reply)
       /\ phase' = IF r.reply.kind = "saved" THEN [phase EXCEPT ![u] = "saved"] ELSE phase
       /\ UNCHANGED <<views, adjusts, running>>

Rename(u, old_name, new_name) ==
    LET r == RenameResult(u, old_name, new_name)
    IN /\ characters' = r.characters
       /\ last' = Said("rename", u, <<old_name, new_name>>, r.reply)
       /\ UNCHANGED <<active_creations, views, phase, adjusts, running>>

\* a command arrives and its task is created
Dispatch(t, cmd, u, args) ==
    /\ running[t].pc = "idle"
    /\ running' = [running EXCEPT ![t] = [pc |-> "start", cmd |-> cmd, user |-> u,
                                           args |-> args, seen |-> characters]]
    /\ UNCHANGED <<active_creations, views, characters, last, phase, adjusts>>

\* the state after the handler of task t has run up to its first await and
\* left r behind
Ran(t, task, r) ==
    /\ r.reply.kind = "saved" => Len(CharsOf(task.user)) < MaxChars
    /\ active_creations' = r.creations
    /\ characters' = r.characters
    /\ last' = Said(task.cmd, task.user, task.args, r.reply)
    /\ phase' = CASE r.reply.kind = "started" -> [phase EXCEPT ![task.user] = "created"]
                  [] r.reply.kind = "rolled" -> [phase EXCEPT ![task.user] = "distributed"]
                  [] r.reply.kind = "saved" -> [phase EXCEPT ![task.user] = "saved"]
                  [] OTHER -> phase
    /\ running' = [running EXCEPT ![t] = [pc |-> "sending", cmd |-> task.cmd,
                                           user |-> task.user, args |-> task.args,
                                           seen |-> task.seen, reply |-> r.reply,
                                           waiting |-> {w \in Tasks \ {t} :
                                                          running[w].pc = "start"}]]
    /\ UNCHANGED <<views, adjusts>>

\* the handler of task t runs up to its first await
RunTask(t) ==
    /\ running[t].pc = "start"
    /\ Ran(t, running[t], HandlerResult(t))

\* the awaited send returns and the handler ends
FinishTask(t) ==
    /\ running[t].pc = "sending"
    /\ running' = [w \in Tasks |->
                     IF w = t THEN Idle
                     ELSE IF running[w].pc = "sending"
                     THEN [running[w] EXCEPT !.waiting = @ \ {t}]
                     ELSE running[w]]
    /\ UNCHANGED <<active_creations, views, characters, last, phase, adjusts>>

\* ------------------------------------------------- the session life cycle
\* One player (u1) runs the creation commands; anybody may click a prompt.
LifeSeeds == {0}
LifeRaces == {Lower(Human), Dwarf, Orc}
LifeArgs ==
    { Positional(<<5, 5, 5, 5, 5, 5>>),
      Pairs(<<KeyText("CHA"), Lower(KeyText("STR")), KeyText("DEX"),
              KeyText("CON"), KeyText("INT"), KeyText("WIS")>>, <<4, 5, 5, 5, 5, 5>>) }
LifeClicks == {"STR"}
LifeStats == {Lower(KeyText("STR"))}
LifeValues == {<<2>>}
LifeNames == {Thorin}

Next ==
    \/ \E race_name \in LifeRaces : Create("u1", race_name)
    \/ \E args \in LifeArgs, seed \in LifeSeeds : Distribute("u1", args, seed, LifeViews)
    \/ \E v \in BagToSet(views), clicker \in Users, stat \in LifeClicks : BonusClick(v, clicker, stat)
    \/ \E v \in BagToSet(views) : ViewTimeout(v)
    \/ \E stat \in LifeStats, value \in LifeValues : AddStat("u1", stat, value, MaxAdjust)
    \/ \E stat \in LifeStats, value \in LifeValues : RemoveStat("u1", stat, value, MaxAdjust)
    \/ \E name \in LifeNames : SaveChar("u1", name)

Spec == Init /\ [][Next]_vars

\* ------------------------------------------------------- character names
\* Player u1 creates Dwarf characters, saves them under several names and
\* renames them; player u2 saves one character named Thorin as well.
DwarfArgs == Pairs(<<KeyText("CHA"), Lower(KeyText("STR")), KeyText("DEX"),
                     KeyText("CON"), KeyText("INT"), KeyText("WIS")>>, <<4, 5, 5, 5, 5, 5>>)
NameArgs == {Thorin, Lower(Thorin), Bilbo}

NextNames ==
    \/ \E u \in Users : Create(u, Dwarf)
    \/ \E u \in Users : Distribute(u, DwarfArgs, 0, 0)
    \/ \E name \in NameArgs \cup {NoArg} : SaveChar("u1", name)
    \/ SaveChar("u2", Thorin)
    \/ \E old_name \in NameArgs, new_name \in NameArgs \cup {NoArg} :
          Rename("u1", old_name, new_name)

SpecNames == Init /\ [][NextNames]_vars

\* ------------------------------------------------------------ the allocator
\* One distribute command, with any of the token lists below, in a session
\* that create has just opened for any race of the catalog.
AllocValues == {2, 3, 5, 19}
PairValues == {2, 4, 5, 6}
PairOrders ==
    { [i \in 1..6 |-> KeyText(Keys[i])],
      [i \in 1..6 |-> Lower(KeyText(Keys[7 - i]))],
      <<KeyText("CHA"), Lower(KeyText("STR")), KeyText("DEX"),
        KeyText("CON"), KeyText("INT"), KeyText("WIS")>>,
      <<KeyText("STR"), KeyText("DEX"), KeyText("STR"),
        KeyText("CON"), KeyText("INT"), KeyText("WIS")>>,
      <<KeyText("STR"), KeyText("DEX"), <<"L", "C", "K">>,
        KeyText("CON"), KeyText("INT"), KeyText("WIS")>> }
OddTokens == {<<"5">>, <<"-", "5">>, <<"sup2">>, <<"0", "7">>}

AllocArgs ==
    {Positional(values) : values \in [1..6 -> AllocValues]}
    \cup {Pairs(names, values) : names \in PairOrders, values \in [1..6 -> PairValues]}
    \cup [1..6 -> OddTokens]
    \cup {[i \in 1..12 |-> IF i % 2 = 1 THEN KeyText(Keys[(i + 1) \div 2]) ELSE odd[i \div 2]] :
             odd \in [1..6 -> {<<"5">>, <<"x">>, <<"sup2">>}]}
    \cup {[i \in 1..n |-> <<"5">>] : n \in 0..13}
    \cup {[i \in 1..n |-> KeyText("STR")] : n \in {6, 12}}

InitAlloc ==
    /\ \E t \in 1..Len(RaceCatalog) : active_creations = [u \in {"u1"} |-> NewCreation(1, t)]
    /\ views = EmptyBag
    /\ characters = EmptyDict
    /\ last = [op |-> "none"]
    /\ phase = [u \in Users |-> IF u = "u1" THEN "created" ELSE "none"]
    /\ adjusts = 0
    /\ running = NoTasks

NextAlloc ==
    /\ last.op = "none"
    /\ \E args \in AllocArgs : Distribute("u1", args, 0, 1)

SpecAlloc == InitAlloc /\ [][NextAlloc]_vars

\* ------------------------------------------------------- the flexible bonus
\* Player u1 creates characters of a race with a flexible bonus (Human) or
\* without one (Dwarf) and distributes, possibly more than once; anybody clicks
\* the prompts, which may also time out.
BonusViews == 2     \* bonus prompts alive at once
BonusRaces == {Human, Dwarf}
BonusSeeds == {0, 1}
BonusArgs == {Positional(<<5, 5, 5, 5, 5, 5>>), DwarfArgs}
BonusClicks == {"STR", "DEX"}

NextBonus ==
    \/ \E race_name \in BonusRaces : Create("u1", race_name)
    \/ \E args \in BonusArgs, seed \in BonusSeeds : Distribute("u1", args, seed, BonusViews)
    \/ \E v \in BagToSet(views), clicker \in Users, stat \in BonusClicks : BonusClick(v, clicker, stat)
    \/ \E v \in BagToSet(views) : ViewTimeout(v)

SpecBonus == Init /\ [][NextBonus]_vars

\* ------------------------------------------------------ manual adjustments
\* Player u1 creates a Dwarf, distributes, adds to and removes from the
\* stats, and saves.
AdjustSteps == 2    \* add/remove commands that succeed in one behaviour
AdjustStats == {Lower(KeyText("STR")), KeyText("CHA"), <<"L", "C", "K">>}
AdjustValues == {<<-2>>, <<0>>, <<3>>}

NextAdjust ==
    \/ Create("u1", Dwarf)
    \/ Distribute("u1", DwarfArgs, 0, 0)
    \/ \E stat \in AdjustStats, value \in AdjustValues : AddStat("u1", stat, value, AdjustSteps)
    \/ \E stat \in AdjustStats, value \in AdjustValues : RemoveStat("u1", stat, value, AdjustSteps)
    \/ SaveChar("u1", Thorin)

SpecAdjust == Init /\ [][NextAdjust]_vars

\* ------------------------------------------------------------------- dice
\* Dice expressions are parsed, their canonical forms parsed again, dice are
\* rolled, and players issue the roll command.
Parse(expr) ==
    /\ last' = [op |-> "parse", text |-> expr, result |-> ParseRoll(expr)]
    /\ UNCHANGED <<active_creations, views, characters, phase, adjusts, running>>

\* parse_roll on the canonical form of the expression parsed last
Reparse ==
    /\ last.op = "parse"
    /\ last.result.kind = "ok"
    /\ last' = [op |-> "reparse", text |-> last.text, first |-> last.result,
                second |-> ParseRoll(last.result.clean)]
    /\ UNCHANGED <<active_creations, views, characters, phase, adjusts, running>>

\* roll_dice(num, sides, keep, mod) drawing from stream seed
RollDiceCall(num, sides, keep, mod, seed) ==
    /\ last' = [op |-> "roll_dice", num |-> num, sides |-> sides, keep |-> keep, mod |-> mod,
                out |-> RollDice([j \in 1..num |-> Draw(seed, j, sides)], KeepArg(keep), mod)]
    /\ UNCHANGED <<active_creations, views, characters, phase, adjusts, running>>

Roll(u, expression, seed) ==
    /\ last' = [op |-> "roll", user |-> u, expression |-> expression,
                reply |-> RollResult(expression, seed)]
    /\ UNCHANGED <<active_creations, views, characters, phase, adjusts, running>>

\* the parts expressions are put together from
CountParts == {<<>>, <<"0">>, <<"1">>, <<"4">>, <<"0", "4">>, <<"1", "0", "1">>}
SidesParts == {<<"0">>, <<"1">>, <<"6">>, <<"2", "0">>}
KeepParts == {<<>>, <<"k", "0">>, <<"k", "3">>, <<"K", "5">>, <<" ", "k", " ", "2", "0", "0">>}
ModParts == {<<>>, <<"+", "2">>, <<"-", "1">>, <<"+", "0">>, <<" ", "-", "1", "0">>}
Built(c, s, k, m) == c \o <<"d">> \o s \o k \o m

OddTexts ==
    { <<>>, <<"0">>, <<"6">>, <<"2", "0">>, <<"0", "0", "7">>, <<"sup2">>, <<"6", "sup2">>,
      <<"d">>, <<"4", "d">>, <<"4", "d", "6", "k">>, <<"4", "d", "6", "+">>,
      <<"4", "d", "6", "x">>, <<"4", " ", "d", "6">>, <<"d", "6", "d", "6">>,
      <<"4", "d", "6", "k", "3", "k", "3">>, <<"4", "d", "6", "+", "2", "k", "3">>,
      <<" ", "D", "6", " ">>, <<"-", "4", "d", "6">>, <<"4", "d", "sup2">>,
      <<"4", "d", "6", "k", "-", "1">>, <<"4", "d", "6", "+", "-", "2">>, <<"x">> }

DiceTexts ==
    {Built(c, s, k, m) : c \in CountParts, s \in SidesParts, k \in KeepParts, m \in ModParts}
    \cup OddTexts

\* the expressions of the roll command: single ones and batches of two or three
RollSingles ==
    { <<"d", "6">>, <<"4", "d", "6", "k", "3">>, <<"2", "d", "6", "+", "2">>, <<"2", "0">>,
      <<"0", "d", "6">>, <<"0", "d", "6", "k", "3", "+", "2">>, <<"4", "d", "6", "k", "0">>,
      <<"d", "0">>, <<"x">>, <<"sup2">>, <<>>, <<" ">> }
Comma(a, b) == a \o <<",", " ">> \o b
RollTexts ==
    RollSingles
    \cup {Comma(a, b) : a \in RollSingles, b \in RollSingles}
    \cup {Comma(Comma(a, <<"x">>), b) : a \in RollSingles, b \in RollSingles}
    \cup {None}

DiceSeeds == {0, 1, 2}
DiceKeeps(num) == {None} \cup {<<k>> : k \in 0..num}

\* one call or one command in a behaviour, and the second parse after a parse
NextDice ==
    \/ last.op = "none" /\ \E expr \in DiceTexts : Parse(expr)
    \/ Reparse
    \/ /\ last.op = "none"
       /\ \E num \in 0..5, sides \in {1, 6}, mod \in {-1, 0, 2}, seed \in DiceSeeds :
             \E keep \in DiceKeeps(num) : RollDiceCall(num, sides, keep, mod, seed)
    \/ /\ last.op = "none"
       /\ \E u \in Users, expression \in RollTexts, seed \in DiceSeeds :
             Roll(u, expression, seed)

SpecDice == Init /\ [][NextDice]_vars

\* --------------------------------------------------------- race records
\* parse_racial_modifiers is applied to race records with any combination of
\* structured and legacy fields.
Resolve(race_data) ==
    /\ last' = [op |-> "resolve", race_data |-> race_data,
                mods |-> ParseRacialModifiers(race_data)]
    /\ UNCHANGED <<active_creations, views, characters, phase, adjusts, running>>

ModifierMaps ==
    UNION {[keys -> {-2, 1}] : keys \in SUBSET {"STR", "CON", "LCK"}}
FlexibleValues == {0, 2}
LegacyPlusTexts ==
    { << [num |-> 2], [word |-> Dexterity] >>,
      << [num |-> 2], [word |-> <<"t", "o">>], [word |-> <<"o", "n", "e">>],
         [word |-> <<"a", "b", "i", "l", "i", "t", "y">>], [word |-> <<"s", "c", "o", "r", "e">>] >> }
LegacyMinusTexts == { << [num |-> -2], [word |-> Constitution] >> }

\* a field that is given or not: the empty set, or the value alone
Optional(S) == {{}} \cup {{x} : x \in S}
WithField(d, k, given) == IF given = {} THEN d ELSE Put(d, k, CHOOSE x \in given : TRUE)
RaceRecord(m, f, p, n) ==
    WithField(WithField(WithField(WithField(EmptyDict,
        "modifiers", m), "flexible_stat", f), "AbilityPlus", p), "AbilityMinus", n)

NextRaces ==
    /\ last.op = "none"
    /\ \E m \in Optional(ModifierMaps), f \in Optional(FlexibleValues),
          p \in Optional(LegacyPlusTexts), n \in Optional(LegacyMinusTexts) :
            Resolve(RaceRecord(m, f, p, n))

SpecRaces == Init /\ [][NextRaces]_vars

\* ------------------------------------------------------- recommendations
\* get_recommendations is applied to attribute vectors and class catalogs,
\* and a class is scored for a vector and again for the vector with one
\* attribute raised.
Recommend(stats, file, variance) ==
    /\ last' = [op |-> "recommend", stats |-> stats, file |-> file, variance |-> variance,
                out |-> GetRecommendations(stats, file, variance)]
    /\ UNCHANGED <<active_creations, views, characters, phase, adjusts, running>>

\* the score before the jitter of one class for one vector
ScoreClass(stats, cls) ==
    /\ last' = [op |-> "score", stats |-> stats, cls |-> cls, score |-> TotalScore(stats, cls)]
    /\ UNCHANGED <<active_creations, views, characters, phase, adjusts, running>>

\* the same class scored for the vector with attribute k raised by `by`
Rescore(k, by) ==
    /\ last.op = "score"
    /\ LET raised == Put(last.stats, k, Get(last.stats, k, DefaultStat) + by)
       IN last' = [op |-> "rescore", stats |-> last.stats, cls |-> last.cls, key |-> k,
                   raised |-> raised, first |-> last.score,
                   second |-> TotalScore(raised, last.cls)]
    /\ UNCHANGED <<active_creations, views, characters, phase, adjusts, running>>

ClassPool ==
    << [name |-> "Fighter", primary_stats |-> <<"STR">>, secondary_stats |-> <<"CON">>],
       [name |-> "Rogue", primary_stats |-> <<"DEX">>, secondary_stats |-> <<"INT">>],
       [name |-> "Wizard", primary_stats |-> <<"INT">>],
       [name |-> "Cleric", primary_stats |-> <<"WIS", "CHA">>, secondary_stats |-> <<"STR">>],
       [name |-> "Bard", primary_stats |-> <<"CHA">>, secondary_stats |-> <<"DEX", "LCK">>],
       [name |-> "Monk", primary_stats |-> <<"STR", "DEX", "WIS">>, secondary_stats |-> <<>>],
       [secondary_stats |-> <<"CON", "CON">>] >>

StatVectors ==
    << [k \in KeySet |-> CASE k = "STR" -> 15 [] k = "DEX" -> 12 [] k = "CON" -> 13
                           [] k = "INT" -> 14 [] k = "WIS" -> 15 [] k = "CHA" -> 15],
       EmptyDict,
       [k \in {"STR", "CHA"} |-> IF k = "STR" THEN 18 ELSE 7] >>

\* the states of classes.json: a catalog of the first n classes of the pool,
\* and the files without a list of classes
CatalogOf(n) == [kind |-> "dict", data |-> [classes |-> ListOf(Take(ClassPool, n))]]
OddFiles ==
    << [kind |-> "missing"], [kind |-> "unreadable"], [kind |-> "list"],
       [kind |-> "dict", data |-> EmptyDict],
       [kind |-> "dict", data |-> [classes |-> [type |-> "null"]]] >>

VarianceValues == {95, 100, 105}
RaiseValues == {1, 3}

NextRecs ==
    \/ /\ last.op = "none"
       /\ \E s \in 1..Len(StatVectors), n \in 0..Len(ClassPool) :
             \E variance \in [1..n -> VarianceValues] :
                Recommend(StatVectors[s], CatalogOf(n), variance)
    \/ /\ last.op = "none"
       /\ \E s \in 1..Len(StatVectors), f \in 1..Len(OddFiles) :
             Recommend(StatVectors[s], OddFiles[f], <<>>)
    \/ /\ last.op = "none"
       /\ \E s \in 1..Len(StatVectors), c \in 1..Len(ClassPool) :
             ScoreClass(StatVectors[s], ClassPool[c])
    \/ \E k \in KeySet, by \in RaiseValues : Rescore(k, by)

SpecRecs == Init /\ [][NextRecs]_vars

\* ------------------------------------------------------------- two players
\* Player u1 creates Human characters, distributes, adjusts and saves; player
\* u2 creates Dwarf characters, distributes and saves; both click the prompts
\* of u1's sessions.
PlayerViews == 1     \* bonus prompts alive at once
PlayerAdjusts == 1   \* add/remove commands that succeed in one behaviour
PlayerArgs == Positional(<<5, 5, 5, 5, 5, 5>>)
PlayerStat == Lower(KeyText("STR"))

NextPlayers ==
    \/ Create("u1", Human)
    \/ Create("u2", Dwarf)
    \/ Distribute("u1", PlayerArgs, 0, PlayerViews)
    \/ Distribute("u2", DwarfArgs, 0, PlayerViews)
    \/ \E v \in BagToSet(views), clicker \in Users : BonusClick(v, clicker, "STR")
    \/ AddStat("u1", PlayerStat, <<2>>, PlayerAdjusts)
    \/ RemoveStat("u1", PlayerStat, <<2>>, PlayerAdjusts)
    \/ \E u \in Users : SaveChar(u, Thorin)

SpecPlayers == Init /\ [][NextPlayers]_vars

\* ------------------------------------------------------ distributing again
\* Player u1 holds one Human session from the start and distributes, with
\* allocations that pass and allocations that fail, adjusts a stat and answers
\* the bonus prompt, in any order; nobody else clicks and no prompt times out.
RedoSeeds == {0, 1}
RedoArgs ==
    { Positional(<<5, 5, 5, 5, 5, 5>>),
      Positional(<<3, 7, 5, 5, 5, 5>>),
      Positional(<<4, 5, 5, 5, 5, 5>>),
      Positional(<<2, 8, 5, 5, 5, 5>>),
      Positional(<<5, 5, 5, 5, 5>>),
      [i \in 1..6 |-> KeyText("STR")] }

InitRedo ==
    /\ active_creations = [u \in {"u1"} |-> NewCreation(1, FindRace(Human))]
    /\ views = EmptyBag
    /\ characters = EmptyDict
    /\ last = [op |-> "none"]
    /\ phase = [u \in Users |-> IF u = "u1" THEN "created" ELSE "none"]
    /\ adjusts = 0
    /\ running = NoTasks

NextRedo ==
    \/ \E args \in RedoArgs, seed \in RedoSeeds : Distribute("u1", args, seed, LifeViews)
    \/ \E v \in BagToSet(views), stat \in BonusClicks : BonusClick(v, "u1", stat)
    \/ AddStat("u1", PlayerStat, <<2>>, MaxAdjust)
    \/ RemoveStat("u1", PlayerStat, <<2>>, MaxAdjust)

SpecRedo == InitRedo /\ [][NextRedo]_vars

\* ------------------------------------------------------ concurrent commands
\* Player u1 issues create, distribute, save, rename and edit stat commands,
\* up to two of them in flight at once.
TaskNames == {Thorin, Lower(Thorin), Bilbo}

NextTasks ==
    \/ \E t \in Tasks : Dispatch(t, "create", "u1", <<Dwarf>>)
    \/ \E t \in Tasks : Dispatch(t, "dr", "u1", DwarfArgs)
    \/ \E t \in Tasks, name \in TaskNames : Dispatch(t, "save", "u1", <<name>>)
    \/ \E t \in Tasks : Dispatch(t, "rename", "u1", <<Thorin, Bilbo>>)
    \/ \E t \in Tasks : Dispatch(t, "edit_stat", "u1", <<Thorin, Lower(KeyText("STR")), <<18>> >>)
    \/ \E t \in Tasks : RunTask(t)
    \/ \E t \in Tasks : FinishTask(t)

SpecTasks == Init /\ [][NextTasks]_vars

\* =================================================================== claims
\* the step just taken was the command op issued by user u
Did(op, u) == last'.op = op /\ last'.user = u
Was(op, u) == last.op = op /\ last.user = u

\* user u has a session with rolled stats
Rolled(u) == HasSession(u) /\ DOMAIN active_creations[u].stats # {}

\* nothing the handlers keep has changed
NothingChanged == UNCHANGED <<active_creations, views, characters>>

\* a view of u that still points at a creation dict u's session has replaced
StaleView(u) ==
    \E v \in BagToSet(views) :
        /\ v.author = u
        /\ HasSession(u) => v.creation # active_creations[u].oid

\* C1: at most one character per creation session. A successful save removes
\* the user's session and appends exactly one character; a save by a user
\* whose last successful lifecycle step was a save fails and appends nothing.
C1_OneCharacterPerSession ==
    [][\A u \in Users : Did("save", u) =>
          /\ last'.reply.kind = "saved" =>
                /\ HasSession(u)
                /\ u \notin DOMAIN active_creations'
                /\ Len(characters'[u]) = Len(CharsOf(u)) + 1
                /\ \A i \in 1..Len(CharsOf(u)) : characters'[u][i] = characters[u][i]
                /\ characters'[u][Len(characters'[u])].stats = active_creations[u].stats
          /\ phase[u] = "saved" =>
                /\ last'.reply.kind = "no_pending"
                /\ characters' = characters]_vars

C1_Witness ==
    /\ Was("save", "u1")
    /\ last.reply.kind = "no_pending"
    /\ phase["u1"] = "saved"
    /\ Len(CharsOf("u1")) = 1
    /\ ~HasSession("u1")

\* C2: a save by u succeeds only if u's most recent create was followed by a
\* successful distribute with no later create by u; a save right after a
\* create (also a create that replaced a distributed session) fails and
\* changes nothing.
C2_SaveNeedsDistributeAfterCreate ==
    [][\A u \in Users : Did("save", u) =>
          /\ last'.reply.kind = "saved" => phase[u] = "distributed"
          /\ phase[u] = "created" =>
                /\ last'.reply.kind = "no_pending"
                /\ NothingChanged]_vars

\* create, distribute, create, save: the save fails
C2_Witness ==
    /\ Was("save", "u1")
    /\ last.reply.kind = "no_pending"
    /\ phase["u1"] = "created"
    /\ HasSession("u1")
    /\ StaleView("u1")
    /\ characters = EmptyDict

\* the race points the catalog gives race t, 10 when it gives none
RacePointsOf(t) ==
    IF "RacePoints" \in DOMAIN RaceCatalog[t].data THEN RaceCatalog[t].data.RacePoints ELSE 10

\* C3: create with a race of the catalog succeeds from any session state and
\* replaces the user's session entirely: the new session holds the new race,
\* budget 40 - racePoints and empty stats, and no other field; the other
\* users' sessions, the views and the saved characters are left alone.
C3_CreateReplacesSession ==
    [][\A u \in Users : Did("create", u) =>
          LET race_name == last'.args[1]
              t == FindRace(race_name)
          IN IF race_name # NoArg /\ t # 0
             THEN /\ last'.reply.kind = "started"
                  /\ last'.reply.dice_points = 40 - RacePointsOf(t)
                  /\ u \in DOMAIN active_creations'
                  /\ DOMAIN active_creations'[u] =
                         {"oid", "race_name", "race_data", "dice_points", "stats"}
                  /\ active_creations'[u].race_name = RaceCatalog[t].name
                  /\ active_creations'[u].race_data = RaceCatalog[t].data
                  /\ active_creations'[u].dice_points = 40 - RacePointsOf(t)
                  /\ active_creations'[u].stats = EmptyDict
                  /\ \A v \in BagToSet(views) : v.creation # active_creations'[u].oid
                  /\ \A w \in DOMAIN active_creations \ {u} :
                         /\ w \in DOMAIN active_creations'
                         /\ active_creations'[w] = active_creations[w]
                  /\ UNCHANGED <<views, characters>>
             ELSE NothingChanged]_vars

\* a create that replaced a session with rolled stats and a pending bonus
C3_Witness ==
    /\ Was("create", "u1")
    /\ last.reply.kind = "started"
    /\ last.reply.race = Dwarf
    /\ StaleView("u1")
    /\ active_creations["u1"].stats = EmptyDict

\* the names user u has saved
NamesOf(u) == {CharsOf(u)[i].name : i \in 1..Len(CharsOf(u))}
SameName(a, b) == Lower(a) = Lower(b)
UsedBy(u, name) == \E n \in NamesOf(u) : SameName(n, name)

NoTwoAlike ==
    \A u \in DOMAIN characters :
        \A i, j \in 1..Len(characters[u]) :
            i # j => ~SameName(characters[u][i].name, characters[u][j].name)

\* C4: no two characters of one user have names equal ignoring case, and a
\* save or rename whose target name the user already uses (ignoring case) is
\* rejected and leaves the saved characters unchanged.
C4_NamesUniquePerUser ==
    /\ []NoTwoAlike
    /\ [][\A u \in Users :
             /\ Did("save", u) /\ UsedBy(u, last'.args[1]) =>
                   /\ last'.reply.kind \in {"name_taken", "no_pending"}
                   /\ characters' = characters
             /\ Did("rename", u) /\ UsedBy(u, last'.args[2]) =>
                   /\ last'.reply.kind \in {"name_taken", "not_found"}
                   /\ characters' = characters]_vars

\* a save under a name that differs only in case from a saved one
C4_Witness ==
    /\ Was("save", "u1")
    /\ last.args[1] = Lower(Thorin)
    /\ last.reply.kind = "name_taken"
    /\ NamesOf("u1") = {Thorin, Bilbo}
    /\ Thorin \in NamesOf("u2")

\* ---- the two argument shapes of distribute, as the specification words them
IsInteger(tok) == tok # <<>> /\ \A i \in 1..Len(tok) : tok[i] \in DecimalChars
ShapeNumbers(args) == Len(args) = 6 /\ \A i \in 1..6 : IsInteger(args[i])
ShapePairs(args) ==
    /\ Len(args) = 12
    /\ \A i \in 1..6 : IsInteger(args[2 * i])
    /\ \A k \in KeySet : \E i \in 1..6 : Upper(args[2 * i - 1]) = KeyText(k)
WellFormed(args) == ShapeNumbers(args) \/ ShapePairs(args)

\* the value a well-formed token list gives attribute k
ValueOf(args, k) ==
    IF Len(args) = 6
    THEN IntOf(args[CHOOSE i \in 1..6 : Keys[i] = k])
    ELSE IntOf(args[2 * (CHOOSE i \in 1..6 : Upper(args[2 * i - 1]) = KeyText(k))])
SumOf(args) == SumSeq([i \in 1..6 |-> ValueOf(args, Keys[i])])
BelowMinimum(args) == {k \in KeySet : ValueOf(args, k) < 3}
Budget == active_creations["u1"].dice_points

C6_MismatchCarriesDifference ==
    Was("dr", "u1") /\ WellFormed(last.args) /\ SumOf(last.args) # Budget =>
        LET diff == Budget - SumOf(last.args)
        IN /\ last.reply.kind = "mismatch"
           /\ last.reply.target - last.reply.current = diff
           /\ last.reply.status = (IF diff > 0 THEN "missing" ELSE "too many")
           /\ last.reply.count = (IF diff > 0 THEN diff ELSE -diff)
           /\ ~Rolled("u1")

\* sum 29 against budget 30: missing 1
C6_Witness ==
    /\ Was("dr", "u1")
    /\ WellFormed(last.args)
    /\ Budget = 30
    /\ SumOf(last.args) = 29
    /\ last.reply.kind = "mismatch"
    /\ last.reply.status = "missing"
    /\ last.reply.count = 1

\* the attributes an error message names
Named(reply) == IF "stats" \in DOMAIN reply THEN reply.stats ELSE {}

\* C7 as stated: an allocation with a value below 3 fails with a
\* below-minimum error naming the offending attributes.
C7_AsStated ==
    Was("dr", "u1") /\ WellFormed(last.args) /\ BelowMinimum(last.args) # {} =>
        /\ last.reply.kind = "below_min"
        /\ Named(last.reply) = BelowMinimum(last.args)

\* C7: an allocation with a value below 3 is never rolled. When its sum equals
\* the budget, distribute fails with a below-minimum error that states the
\* minimum, 3, and names no attribute; when its sum differs from the budget,
\* the mismatch error is sent instead.
C7_BelowMinimumGeneric ==
    Was("dr", "u1") /\ WellFormed(last.args) /\ BelowMinimum(last.args) # {} =>
        /\ ~Rolled("u1")
        /\ IF SumOf(last.args) = Budget
           THEN /\ last.reply.kind = "below_min"
                /\ last.reply.minimum = 3
                /\ Named(last.reply) = {}
           ELSE last.reply.kind = "mismatch"

\* STR 2 in an allocation that sums to the budget
C7_Witness ==
    /\ Was("dr", "u1")
    /\ WellFormed(last.args)
    /\ SumOf(last.args) = Budget
    /\ BelowMinimum(last.args) = {"STR"}
    /\ last.reply.kind = "below_min"

\* the replies that tell the user the arguments are malformed
FormatErrors == {"help", "invalid_format", "invalid_stat_name", "invalid_value", "missing_stats"}

\* C8 as stated: a token list of one of the two shapes gets past the parsing,
\* and every other token list is rejected as a format error without rolling
\* and without changing the session.
C8_AsStated ==
    [][Did("dr", "u1") =>
          IF WellFormed(last'.args)
          THEN last'.reply.kind \in {"rolled", "mismatch", "below_min"}
          ELSE /\ last'.reply.kind \in FormatErrors
               /\ NothingChanged]_vars

\* C9: commands issued out of order are rejected as state errors and change
\* nothing: distribute with no session, add/remove with no session or no
\* rolled stats, save with no session or no rolled stats.
C9_OutOfOrderRejected ==
    [][\A u \in Users :
          /\ Did("dr", u) /\ ~HasSession(u) =>
                last'.reply.kind = "no_creation" /\ NothingChanged
          /\ (Did("add", u) \/ Did("remove", u)) /\ ~Rolled(u) =>
                /\ last'.reply.kind = (IF HasSession(u) THEN "roll_first" ELSE "no_creation")
                /\ NothingChanged
          /\ Did("save", u) /\ ~Rolled(u) =>
                last'.reply.kind = "no_pending" /\ NothingChanged]_vars

\* an add in a session that has no rolled stats yet
C9_Witness ==
    /\ Was("add", "u1")
    /\ last.reply.kind = "roll_first"
    /\ HasSession("u1")
    /\ ~Rolled("u1")

\* 40 minus the race points of the race a session names
BudgetOfRace(race_name) ==
    40 - RacePointsOf(CHOOSE t \in 1..Len(RaceCatalog) : RaceCatalog[t].name = race_name)

BudgetMatchesRace ==
    \A u \in DOMAIN active_creations :
        active_creations[u].dice_points = BudgetOfRace(active_creations[u].race_name)

\* C10: a session's budget is 40 minus the race points of its race, and no
\* step other than a create by its user changes it: distribute, the bonus
\* choice, add and remove leave it as it was.
C10_BudgetFixed ==
    /\ []BudgetMatchesRace
    /\ [][\A u \in DOMAIN active_creations :
             ~(Did("create", u) /\ last'.reply.kind = "started") /\ u \in DOMAIN active_creations' =>
                 active_creations'[u].dice_points = active_creations[u].dice_points]_vars

\* a session that has been distributed, given its bonus and adjusted
C10_Witness ==
    /\ Was("add", "u1")
    /\ last.reply.kind = "updated"
    /\ Rolled("u1")
    /\ "stat_history" \in DOMAIN active_creations["u1"]
    /\ \E i \in 1..Len(active_creations["u1"].stat_history) :
           "bonus" \in DOMAIN active_creations["u1"].stat_history[i]
    /\ active_creations["u1"].dice_points = 30

\* ---- the dice behind the stats of a session, as its roll narrative shows them
LinesOf(u) == active_creations[u].stat_history
RollLineOf(u, k) ==
    LinesOf(u)[CHOOSE i \in 1..Len(LinesOf(u)) :
                  "stat" \in DOMAIN LinesOf(u)[i] /\ LinesOf(u)[i].stat = k]
DescendingSeq(s) == \A i \in 1..(Len(s) - 1) : s[i] >= s[i + 1]
DeltaOf(u, k) == Get(ParseRacialModifiers(active_creations[u].race_data), k, 0)

\* C11: after a successful distribute of allocation a, the session's stats
\* have exactly the six keys, and for each attribute a[attr] six-sided dice
\* were rolled and the stored stat is the sum of the three highest of them
\* plus the race's delta for the attribute.
C11_StatsAreTopThreePlusDelta ==
    Was("dr", "u1") /\ last.reply.kind = "rolled" =>
        /\ DOMAIN active_creations["u1"].stats = KeySet
        /\ Len(LinesOf("u1")) = 6
        /\ \A k \in KeySet :
              LET line == RollLineOf("u1", k)
                  dice == line.kept \o line.dropped
              IN /\ \E i \in 1..6 : LinesOf("u1")[i].stat = k
                 /\ Len(dice) = ValueOf(last.args, k)
                 /\ \A i \in 1..Len(dice) : dice[i] \in 1..6
                 /\ Len(line.kept) = 3
                 /\ DescendingSeq(dice)
                 /\ active_creations["u1"].stats[k] = SumSeq(line.kept) + DeltaOf("u1", k)

\* a Dwarf's Constitution: more than three dice, two points of racial delta
C11_Witness ==
    /\ Was("dr", "u1")
    /\ last.reply.kind = "rolled"
    /\ active_creations["u1"].race_name = Dwarf
    /\ Len(RollLineOf("u1", "CON").dropped) >= 2
    /\ DeltaOf("u1", "CON") = 2
    /\ active_creations["u1"].stats["CON"] = SumSeq(RollLineOf("u1", "CON").kept) + 2

\* the flexible bonus has been applied to the stats user u's session holds:
\* the narrative of the session ends with the line the bonus choice adds
Resolved(u) ==
    /\ HasSession(u)
    /\ "stat_history" \in DOMAIN active_creations[u]
    /\ \E i \in 1..Len(LinesOf(u)) : "bonus" \in DOMAIN LinesOf(u)[i]

\* C12 as stated: once the flexible bonus has been applied to the stats a
\* distribute produced, no further bonus choice changes those stats.
C12_AsStated ==
    [][\A u \in Users :
          Did("bonus", u) /\ last'.reply.kind = "bonus_applied" /\ Resolved(u) =>
              active_creations'[u].stats = active_creations[u].stats]_vars

\* the stats the dice and the race gave user u's session, read off its narrative
RolledStats(u) == [k \in KeySet |-> RollLineOf(u, k).final]

\* C13: between a successful distribute and save, add(attr, v) sets the stat
\* of attr to its old value plus v and remove(attr, v) to its old value minus
\* v, for positive, zero and negative v; the other five stats, the budget,
\* the race and the narrative stay as they were; a remove(attr, v) right
\* after add(attr, v) brings the stat back to what it was before the add.
C13_AddRemoveFrame ==
    [][\A u \in Users :
          (Did("add", u) \/ Did("remove", u)) /\ Rolled(u) /\ IsKeyText(Upper(last'.args[1])) =>
              LET k == KeyOfText(Upper(last'.args[1]))
                  v == last'.args[2][1]
                  old == active_creations[u]
                  expected == IF last'.op = "add" THEN old.stats[k] + v ELSE old.stats[k] - v
              IN /\ last'.reply.kind = "updated"
                 /\ last'.reply.value = expected
                 /\ active_creations' =
                        [active_creations EXCEPT ![u].stats =
                            [j \in KeySet |-> IF j = k THEN expected ELSE old.stats[j]]]
                 /\ UNCHANGED <<views, characters>>
                 /\ (/\ last'.op = "remove"
                     /\ Was("add", u)
                     /\ last.reply.kind = "updated"
                     /\ last.reply.stat = k
                     /\ last.args[2] = last'.args[2])
                    => active_creations'[u].stats[k] = last.reply.value - v]_vars

\* add 3 then remove 3: the stats are the rolled ones again
C13_Witness ==
    /\ Was("remove", "u1")
    /\ last.reply.kind = "updated"
    /\ last.args = <<Lower(KeyText("STR")), <<3>>>>
    /\ adjusts = 2
    /\ Rolled("u1")
    /\ active_creations["u1"].stats = RolledStats("u1")

\* ---- what the parts of an expression say, read without the parser
DecimalsOf(part) == SelectSeq(part, LAMBDA c : c \in DecimalChars)
CountOf(c) == IF c = <<>> THEN 1 ELSE IntOf(c)
KeepOf(k) == IF k = <<>> THEN None ELSE <<IntOf(DecimalsOf(k))>>
Least(a, b) == IF a < b THEN a ELSE b

\* the expression parsed last is put together from the parts c, s, k, m
ParsedFrom(c, s, k, m) == last.op = "parse" /\ last.text = Built(c, s, k, m)

\* C14: every expression parse accepts has sides >= 1, count <= 100 and,
\* when keep is present, keep <= count; a count above 100 becomes 100 and a
\* keep above the (clamped) count becomes that count, and neither makes parse
\* reject the expression.
C14_ParseClamps ==
    /\ last.op = "parse" /\ last.result.kind = "ok" =>
          /\ last.result.sides >= 1
          /\ last.result.num <= 100
          /\ last.result.keep # None => last.result.keep[1] <= last.result.num
    /\ \A c \in CountParts, s \in SidesParts, k \in KeepParts, m \in ModParts :
          ParsedFrom(c, s, k, m) /\ IntOf(s) >= 1 =>
              /\ last.result.kind = "ok"
              /\ last.result.num = Least(CountOf(c), 100)
              /\ last.result.sides = IntOf(s)
              /\ last.result.keep =
                     (IF KeepOf(k) = None THEN None
                      ELSE <<Least(KeepOf(k)[1], Least(CountOf(c), 100))>>)

\* 101d6 k 200 is accepted as 100 dice, keep 100
C14_Witness ==
    /\ ParsedFrom(<<"1", "0", "1">>, <<"6">>, <<" ", "k", " ", "2", "0", "0">>, <<>>)
    /\ last.result.kind = "ok"
    /\ last.result.num = 100
    /\ last.result.keep = <<100>>

\* the expression parsed last has a sides value below 1
SidesBelowOne ==
    /\ last.op = "parse"
    /\ \/ \E c \in CountParts, s \in SidesParts, k \in KeepParts, m \in ModParts :
             last.text = Built(c, s, k, m) /\ IntOf(s) < 1
       \/ IntOk(Strip(last.text)) /\ IntOf(Strip(last.text)) < 1

\* C15 as stated: parse rejects every expression whose sides value is below
\* 1, and it rejects "0d6".
C15_AsStated ==
    (SidesBelowOne \/ (last.op = "parse" /\ last.text = <<"0", "d", "6">>)) =>
        last.result.kind = "none"

\* C16 as stated: parsing the canonical form of an accepted expression gives
\* the same count, sides, keep and modifier as parsing the expression.
C16_AsStated ==
    last.op = "reparse" =>
        /\ last.second.kind = "ok"
        /\ last.second.num = last.first.num
        /\ last.second.sides = last.first.sides
        /\ last.second.keep = last.first.keep
        /\ last.second.mod = last.first.mod

\* ---- multisets of rolls
RollCounts(s) == [x \in {s[i] : i \in 1..Len(s)} |-> Cardinality({i \in 1..Len(s) : s[i] = x})]
RollsWithin(a, b) == \A x \in DOMAIN a : x \in DOMAIN b /\ a[x] <= b[x]

\* C17 as stated: roll_dice with count N and keep K returns N rolls, each in
\* 1..sides; the kept rolls are min(K, N) many, sorted in descending order, a
\* sub-multiset of the rolls made of its largest values; without a keep the
\* kept rolls are the rolls; the total is the sum of the kept rolls plus the
\* modifier.
C17_AsStated ==
    last.op = "roll_dice" =>
        LET rolls == last.out.rolls
            kept == last.out.kept
        IN /\ Len(rolls) = last.num
           /\ \A i \in 1..Len(rolls) : rolls[i] \in 1..last.sides
           /\ last.out.total = SumSeq(kept) + last.mod
           /\ IF last.keep = None THEN kept = rolls
              ELSE /\ Len(kept) = Least(last.keep[1], last.num)
                   /\ DescendingSeq(kept)
                   /\ RollsWithin(RollCounts(kept), RollCounts(rolls))
                   /\ \A i \in 1..Len(kept) :
                          Cardinality({j \in 1..Len(rolls) : rolls[j] > kept[i]}) < Len(kept)

\* the expressions of the roll command run last, blank ones left out
Asked ==
    SelectSeq([i \in 1..Len(Split(last.expression)) |-> Strip(Split(last.expression)[i])],
              LAMBDA e : e # <<>>)

\* C18 as stated: the roll command on one expression with count 0 that parse
\* accepts answers with an outcome whose rolls are empty and whose total is
\* the modifier.
C18_AsStated ==
    (/\ last.op = "roll"
     /\ last.expression # None
     /\ Len(Asked) = 1
     /\ ParseRoll(Asked[1]).kind = "ok"
     /\ ParseRoll(Asked[1]).num = 0) =>
        /\ last.reply.kind = "rolled"
        /\ Len(last.reply.results) = 1
        /\ last.reply.results[1].all_rolls = <<>>
        /\ last.reply.results[1].total = ParseRoll(Asked[1]).mod

\* C19 as stated: the roll command on a batch answers with one entry per
\* non-blank expression, in the order of the input: an error entry for an
\* expression parse does not accept, a roll for every other.
C19_AsStated ==
    (last.op = "roll" /\ last.expression # None /\ Asked # <<>>) =>
        /\ last.reply.kind = "rolled"
        /\ Len(last.reply.results) = Len(Asked)
        /\ \A i \in 1..Len(Asked) :
              /\ last.reply.results[i].expr = Asked[i]
              /\ last.reply.results[i].kind =
                     (IF ParseRoll(Asked[i]).kind = "ok" THEN "rolled" ELSE "invalid")

\* C20: for a race record with a structured modifiers mapping, legacy texts
\* present or not, the resolved deltas are the structured values of the six
\* keys (0 for a key the mapping lacks, other keys ignored), the flexible
\* bonus is the structured flexible value when that is above 0 and absent
\* otherwise, and nothing of the legacy texts is taken over.
C20_StructuredWins ==
    (last.op = "resolve" /\ "modifiers" \in DOMAIN last.race_data) =>
        LET m == last.race_data.modifiers
            flexible == IF "flexible_stat" \in DOMAIN last.race_data
                        THEN last.race_data.flexible_stat ELSE 0
        IN /\ DOMAIN last.mods = KeySet \cup (IF flexible > 0 THEN {"ANY"} ELSE {})
           /\ \A k \in KeySet : last.mods[k] = (IF k \in DOMAIN m THEN m[k] ELSE 0)
           /\ flexible > 0 => last.mods["ANY"] = flexible

\* structured CON and LCK, no flexible value, and both legacy texts, one of
\* them offering a bonus to one ability score
C20_Witness ==
    /\ last.op = "resolve"
    /\ DOMAIN last.race_data = {"modifiers", "AbilityPlus", "AbilityMinus"}
    /\ DOMAIN last.race_data.modifiers = {"CON", "LCK"}
    /\ HasOnePhrase(last.race_data.AbilityPlus)
    /\ last.mods = [k \in KeySet |-> IF k = "CON" THEN last.race_data.modifiers["CON"] ELSE 0]

\* the classes of the catalog a recommendation was asked for, none when the
\* file holds no list of classes
AskedClasses ==
    IF last.file.kind = "dict" /\ "classes" \in DOMAIN last.file.data
       /\ last.file.data.classes.type = "list"
    THEN last.file.data.classes.items
    ELSE <<>>

\* the mean of the attributes of a list in twelfths, absent ones counting 10
MeanTwelfths(stats, cls, field) ==
    IF field \in DOMAIN cls /\ cls[field] # <<>>
    THEN (12 * SumSeq([i \in 1..Len(cls[field]) |->
                          IF cls[field][i] \in DOMAIN stats THEN stats[cls[field][i]] ELSE 10]))
         \div Len(cls[field])
    ELSE 0

\* the name and the jittered score of the i-th class asked about
Jittered(i) ==
    [name |-> IF "name" \in DOMAIN AskedClasses[i] THEN AskedClasses[i].name ELSE "Unknown",
     score |-> (MeanTwelfths(last.stats, AskedClasses[i], "primary_stats")
                + MeanTwelfths(last.stats, AskedClasses[i], "secondary_stats") \div 2)
               * last.variance[i]]

NoCatalog ==
    \/ last.file.kind = "missing"
    \/ last.file.kind = "dict" /\ "classes" \notin DOMAIN last.file.data
    \/ last.file.kind = "dict" /\ "classes" \in DOMAIN last.file.data
       /\ last.file.data.classes = ListOf(<<>>)

\* C21: a recommendation holds at most 5 class scores in non-increasing order
\* of jittered score, each of them a class of the catalog with its jittered
\* score (no class more often than the catalog holds it), and every class
\* whose jittered score is above the lowest returned one is returned; an
\* empty or missing catalog gives the empty list and no exception.
C21_TopFiveByJitteredScore ==
    last.op = "recommend" =>
        /\ NoCatalog => last.out = [kind |-> "ok", recs |-> <<>>]
        /\ last.out.kind = "ok" =>
             LET recs == last.out.recs
                 n == Len(AskedClasses)
             IN /\ Len(recs) = (IF n < 5 THEN n ELSE 5)
                /\ \A j \in 1..(Len(recs) - 1) : recs[j].score >= recs[j + 1].score
                /\ \A j \in 1..Len(recs) :
                     Cardinality({h \in 1..Len(recs) : recs[h] = recs[j]})
                        <= Cardinality({i \in 1..n : Jittered(i) = recs[j]})
                /\ \A i \in 1..n :
                     (recs # <<>> /\ Jittered(i).score > recs[Len(recs)].score) =>
                        Cardinality({h \in 1..Len(recs) : recs[h] = Jittered(i)})
                           = Cardinality({g \in 1..n : Jittered(g) = Jittered(i)})

\* seven classes asked about with different jitters, five returned, the
\* first of them not the first of the catalog, two of them of equal score
C21_Witness ==
    /\ last.op = "recommend"
    /\ Len(AskedClasses) = 7
    /\ last.out.kind = "ok"
    /\ Len(last.out.recs) = 5
    /\ last.out.recs[1].name # "Fighter"
    /\ \E i, j \in 1..7 : last.variance[i] # last.variance[j]
    /\ \E j \in 1..4 : last.out.recs[j].score = last.out.recs[j + 1].score

\* C22: when a class is scored for a vector and for the same vector with one
\* of the class's primary attributes raised (an attribute the vector lacks
\* counting as 10), the second score before the jitter is not below the first.
C22_PrimaryRaiseNeverLowers ==
    (/\ last.op = "rescore"
     /\ "primary_stats" \in DOMAIN last.cls
     /\ \E i \in 1..Len(last.cls.primary_stats) : last.cls.primary_stats[i] = last.key)
        => last.second >= last.first

\* a primary attribute the vector lacks is raised from 10 to 13 for a class
\* with two primaries, and the score goes up
C22_Witness ==
    /\ last.op = "rescore"
    /\ Get(last.cls, "name", "Unknown") = "Cleric"
    /\ last.key = "WIS"
    /\ "WIS" \notin DOMAIN last.stats
    /\ last.raised["WIS"] = 13
    /\ last.second > last.first

\* user b's session and user b's persisted characters are the same before
\* and after the step
Untouched(b) ==
    /\ (b \in DOMAIN active_creations') <=> (b \in DOMAIN active_creations)
    /\ b \in DOMAIN active_creations => active_creations'[b] = active_creations[b]
    /\ (b \in DOMAIN characters') <=> (b \in DOMAIN characters)
    /\ b \in DOMAIN characters => characters'[b] = characters[b]

PlayerOps == {"create", "dr", "add", "remove", "save", "bonus"}

\* C23: a create, distribute, add, remove, save or flexible-bonus choice
\* issued by one user, accepted or refused, leaves every other user's session
\* and persisted characters as they were; the session map holds at most one
\* session per user.
C23_SessionsIsolated ==
    [][ /\ last'.op \in PlayerOps =>
             \A b \in Users \ {last'.user} : Untouched(b)
        /\ DOMAIN active_creations' \subseteq Users ]_vars

\* u2 clicks u1's prompt while both hold rolled sessions and u1 has saved a
\* character before
C23_Witness ==
    /\ last.op = "bonus"
    /\ last.user = "u2"
    /\ last.args[1] = "u1"
    /\ "u1" \in DOMAIN active_creations /\ active_creations["u1"].stats # EmptyDict
    /\ "u2" \in DOMAIN active_creations /\ active_creations["u2"].stats # EmptyDict
    /\ "u1" \in DOMAIN characters /\ characters["u1"] # <<>>

\* the step is the run of a task's handler up to its first await
RunOf(t) == running[t].pc = "start" /\ running'[t].pc = "sending"

\* the index of user u's character of the given name, ignoring case
IndexOf(u, name) ==
    CHOOSE i \in 1..Len(CharsOf(u)) :
        /\ SameName(CharsOf(u)[i].name, name)
        /\ \A j \in 1..(i - 1) : ~SameName(CharsOf(u)[j].name, name)

\* what the run of task t does to characters.json and to the session map is
\* the whole change of its command applied to their content of the moment
AppliedToCurrent(t) ==
    LET task == running[t]
        u == task.user
        kind == running'[t].reply.kind
    IN /\ kind = "saved" =>
            /\ u \in DOMAIN active_creations
            /\ ~UsedBy(u, task.args[1])
            /\ u \in DOMAIN characters'
            /\ Len(characters'[u]) = Len(CharsOf(u)) + 1
            /\ characters' = Put(characters, u, CharsOf(u) \o <<characters'[u][Len(CharsOf(u)) + 1]>>)
            /\ characters'[u][Len(CharsOf(u)) + 1].name = task.args[1]
            /\ characters'[u][Len(CharsOf(u)) + 1].stats = active_creations[u].stats
            /\ active_creations' = Without(active_creations, u)
       /\ kind = "renamed" =>
            /\ UsedBy(u, task.args[1])
            /\ characters' = [characters EXCEPT ![u][IndexOf(u, task.args[1])].name = task.args[2]]
            /\ active_creations' = active_creations
       /\ kind = "stat_updated" =>
            /\ UsedBy(u, task.args[1])
            /\ characters' = [characters EXCEPT ![u][IndexOf(u, task.args[1])].stats =
                                 Put(@, "STR", task.args[3][1])]
            /\ active_creations' = active_creations
       /\ kind \in {"started", "rolled"} =>
            /\ characters' = characters
            /\ \A w \in DOMAIN active_creations \ {u} :
                  w \in DOMAIN active_creations' /\ active_creations'[w] = active_creations[w]
       /\ kind \notin {"saved", "renamed", "stat_updated", "started", "rolled"} =>
            /\ characters' = characters
            /\ active_creations' = active_creations

\* two save commands of one user were dispatched before either ran, and both
\* have run
SavedTogether(t1, t2) ==
    /\ t1 # t2
    /\ running[t1].pc = "sending" /\ running[t1].cmd = "save"
    /\ running[t2].pc = "sending" /\ running[t2].cmd = "save"
    /\ running[t1].user = running[t2].user
    /\ t2 \in running[t1].waiting

\* of two concurrent saves under the same name at most one succeeds
SameNameOnce ==
    \A t1, t2 \in Tasks :
        (SavedTogether(t1, t2) /\ SameName(running[t1].args[1], running[t2].args[1]))
            => ~(running[t1].reply.kind = "saved" /\ running[t2].reply.kind = "saved")

\* C24 as stated: every run of a handler applies its whole change to the
\* current content, two concurrent saves under the same name never both
\* succeed, and two concurrent saves under different names both end up in
\* the persisted list.
C24_AsStated ==
    /\ [](NoTwoAlike /\ SameNameOnce)
    /\ [][\A t \in Tasks : RunOf(t) => AppliedToCurrent(t)]_vars
    /\ [](\A t1, t2 \in Tasks :
            (SavedTogether(t1, t2) /\ ~SameName(running[t1].args[1], running[t2].args[1]))
                => /\ UsedBy(running[t1].user, running[t1].args[1])
                   /\ UsedBy(running[t1].user, running[t2].args[1]))

\* of two concurrent saves of one user, under the same name or not, only the
\* one that runs first can succeed: the other finds the session consumed
SecondSaveRefused ==
    \A t1, t2 \in Tasks :
        (SavedTogether(t1, t2) /\ running[t1].reply.kind = "saved")
            => running[t2].reply.kind = "no_pending"

\* C24: under any interleaving of the tasks, every run of a handler applies
\* its whole change (the record appended and the session removed, the name
\* or the stat replaced) to the content characters.json and the session map
\* have at that moment, so that nothing written in between is lost and a
\* save that reports success has appended its record; names stay unique per
\* user; of two concurrent saves of one user only the first to run can
\* succeed, whatever their names.
C24_MutationsAtomic ==
    /\ [](NoTwoAlike /\ SameNameOnce /\ SecondSaveRefused)
    /\ [][\A t \in Tasks : RunOf(t) => AppliedToCurrent(t)]_vars

\* a save dispatched while the user had no character succeeds after another
\* save has been persisted in between: both records are in the list
C24_Witness ==
    \E t \in Tasks :
        /\ running[t].pc = "sending"
        /\ running[t].cmd = "save"
        /\ running[t].reply.kind = "saved"
        /\ Get(running[t].seen, running[t].user, <<>>) = <<>>
        /\ Len(CharsOf(running[t].user)) = 2
        /\ CharsOf(running[t].user)[2].name = running[t].args[1]

\* the click of the prompt's owner on view v: the view is consumed, and of
\* all the stats the sessions hold only the chosen one of the session the
\* view belongs to changes, by the view's bonus
OwnerClicked(v, stat) ==
    /\ views' = views (-) SetToBag({v})
    /\ DOMAIN active_creations' = DOMAIN active_creations
    /\ \A u \in DOMAIN active_creations :
          LET old == active_creations[u].stats
              new == active_creations'[u].stats
          IN /\ \A k \in DOMAIN old \ {stat} : k \in DOMAIN new /\ new[k] = old[k]
             /\ IF active_creations[u].oid = v.creation
                THEN /\ DOMAIN new = DOMAIN old \cup {stat}
                     /\ new[stat] = Get(old, stat, 0) + v.bonus_val
                ELSE new = old

\* C25: a flexible-bonus choice is honoured only for the owner of the prompt:
\* a click by any other user is answered "not your session", changes no stat
\* and leaves the prompt open; the owner's click adds the bonus to the chosen
\* attribute and leaves the other five stats as they were.
C25_OwnerOnlyOneAttribute ==
    [][last'.op = "bonus" =>
          IF last'.user # last'.args[1]
          THEN /\ last'.reply.kind = "not_your_session"
               /\ NothingChanged
          ELSE /\ last'.reply.kind = "bonus_applied"
               /\ characters' = characters
               /\ \E v \in BagToSet(views) :
                     v.author = last'.user /\ OwnerClicked(v, last'.args[2])]_vars

\* another user has clicked the open prompt of u1's rolled session
C25_Witness ==
    /\ last.op = "bonus"
    /\ last.user = "u2"
    /\ last.reply.kind = "not_your_session"
    /\ Rolled("u1")
    /\ \E v \in BagToSet(views) :
          v.author = "u1" /\ v.creation = active_creations["u1"].oid

\* the owner's click has raised the Strength of the rolled session by the
\* bonus and nothing else
C25_OwnerWitness ==
    /\ last.op = "bonus"
    /\ last.user = "u1"
    /\ last.reply.kind = "bonus_applied"
    /\ Rolled("u1")
    /\ Resolved("u1")

\* creation dict c holds what a distribute of the allocation `args` has just
\* rolled and nothing else: six roll lines and no bonus line, and for each
\* attribute as many dice as allocated and the stat their three highest and
\* the race's delta give
FreshlyRolled(c, args) ==
    /\ DOMAIN c.stats = KeySet
    /\ Len(c.stat_history) = 6
    /\ \A i \in 1..6 : DOMAIN c.stat_history[i] \cap {"stat", "bonus"} = {"stat"}
    /\ \A k \in KeySet :
          \E i \in 1..6 :
              LET line == c.stat_history[i]
              IN /\ line.stat = k
                 /\ Len(line.kept \o line.dropped) = ValueOf(args, k)
                 /\ c.stats[k] = SumSeq(line.kept)
                                   + Get(ParseRacialModifiers(c.race_data), k, 0)

\* C26: a distribute issued while the session already holds rolled stats
\* either succeeds, and then the six stats and the narrative are those of the
\* new rolls alone (what add, remove and the flexible bonus had made of the
\* previous stats is gone), or fails with a format, mismatch or below-minimum
\* error, and then the stats and the narrative stay as they were.
C26_DistributeAgainReplaces ==
    [][Did("dr", "u1") /\ Rolled("u1") =>
          IF last'.reply.kind = "rolled"
          THEN /\ FreshlyRolled(active_creations'["u1"], last'.args)
               /\ active_creations'["u1"].oid = active_creations["u1"].oid
               /\ active_creations'["u1"].dice_points = active_creations["u1"].dice_points
               /\ active_creations'["u1"].race_data = active_creations["u1"].race_data
          ELSE /\ last'.reply.kind \in FormatErrors \cup {"mismatch", "below_min"}
               /\ NothingChanged]_vars

\* a distribute has succeeded after an add or remove had succeeded in the
\* same session: as one prompt at most is alive and only its owner's click
\* closes it, the prompt of the earlier distribute was answered and the
\* bonus applied before this distribute as well
C26_Witness ==
    /\ Was("dr", "u1")
    /\ last.reply.kind = "rolled"
    /\ adjusts >= 1
    /\ BagCardinality(views) = 1
    /\ FreshlyRolled(active_creations["u1"], last.args)

\* a distribute has failed below the minimum in a session whose stats carry
\* the bonus
C26_FailedWitness ==
    /\ Was("dr", "u1")
    /\ last.reply.kind = "below_min"
    /\ Resolved("u1")

\* C27: right after a successful distribute every stat of the session lies
\* between 3 and 18, each shifted by the race's delta for the attribute,
\* however many dice (three or more) the attribute was given.
C27_StatsWithinRange ==
    Was("dr", "u1") /\ last.reply.kind = "rolled" =>
        \A k \in KeySet :
            /\ ValueOf(last.args, k) >= 3
            /\ active_creations["u1"].stats[k] >= 3 + DeltaOf("u1", k)
            /\ active_creations["u1"].stats[k] <= 18 + DeltaOf("u1", k)

\* an Elf's Dexterity rolled with nineteen dice: three sixes and the delta
\* of two
C27_Witness ==
    /\ Was("dr", "u1")
    /\ last.reply.kind = "rolled"
    /\ ValueOf(last.args, "DEX") = 19
    /\ DeltaOf("u1", "DEX") = 2
    /\ active_creations["u1"].stats["DEX"] = 20

\* C28: distribute looks at the point total before the per-attribute
\* minimum: a well-formed allocation with a value below 3 and a sum other
\* than the budget is answered with the point mismatch, and the
\* below-minimum error is only ever the answer to a well-formed allocation
\* whose sum equals the budget.
C28_TotalBeforeMinimum ==
    Was("dr", "u1") =>
        /\ (WellFormed(last.args) /\ BelowMinimum(last.args) # {} /\ SumOf(last.args) # Budget)
              => last.reply.kind = "mismatch"
        /\ last.reply.kind = "below_min"
              => WellFormed(last.args) /\ SumOf(last.args) = Budget

\* every attribute below the minimum and the budget missed: the mismatch is
\* what the player is told
C28_Witness ==
    /\ Was("dr", "u1")
    /\ WellFormed(last.args)
    /\ BelowMinimum(last.args) = KeySet
    /\ SumOf(last.args) # Budget
    /\ last.reply.kind = "mismatch"
    /\ ~Rolled("u1")

\* the roll lines and the bonus lines of a narrative
IsRollLine(line) == "kept" \in DOMAIN line
IsBonusLine(line) == "bonus" \in DOMAIN line
RollsOf(c) == SelectSeq(c.stat_history, IsRollLine)
BonusesOf(c) == SelectSeq(c.stat_history, IsBonusLine)

\* C29 as stated: the narrative of a session with rolled stats is the one
\* the most recent successful distribute wrote, followed by one bonus line at
\* most: a distribute writes the lines of its own rolls, and a bonus choice
\* keeps the roll lines the session has and never puts those of an earlier
\* distribute in their place.
C29_AsStated ==
    [][/\ Did("dr", "u1") /\ last'.reply.kind = "rolled" =>
             FreshlyRolled(active_creations'["u1"], last'.args)
       /\ Did("bonus", "u1") /\ Rolled("u1") =>
             /\ RollsOf(active_creations'["u1"]) = RollsOf(active_creations["u1"])
             /\ Len(BonusesOf(active_creations'["u1"])) <= 1]_vars

\* view v belongs to an earlier session of its author: the creation dict it
\* holds is not the one the author's session is now, if there is one
Outdated(v) ==
    ~HasSession(v.author) \/ active_creations[v.author].oid # v.creation

\* C30: the owner's click on a prompt of an earlier session, one a later
\* create has replaced or a save has consumed, is answered but changes neither
\* a live session nor a persisted character.
C30_OutdatedPromptHarmless ==
    [][\A v \in BagToSet(views) :
          (/\ Did("bonus", v.author)
           /\ views' = views (-) SetToBag({v})
           /\ Outdated(v)) =>
              /\ last'.reply.kind = "bonus_applied"
              /\ active_creations' = active_creations
              /\ characters' = characters]_vars

\* u1 has saved a character with the prompt still open, started a new
\* session and then clicked the old prompt: the new session has no stats, the
\* saved character the stats the dice gave
C30_Witness ==
    /\ Was("bonus", "u1")
    /\ last.reply.kind = "bonus_applied"
    /\ views = EmptyBag
    /\ HasSession("u1")
    /\ active_creations["u1"].stats = EmptyDict
    /\ Len(CharsOf("u1")) = 1
    /\ CharsOf("u1")[1].stats = FinalStats(CharsOf("u1")[1].stat_history)

====
